---- MODULE Spec2Model ----
(***************************************************************************)
(* A model of the finance manager's client components and of the hosted    *)
(* store they write to.                                                    *)
(*                                                                         *)
(*   TransactionManager  historyRows, monthly, addTransaction               *)
(*   BudgetsTab          rows (spent / remaining / pct / status)            *)
(*   LoanManager         addLoan, toggleLoanStatus                          *)
(*                                                                         *)
(* Amounts and balances are integers held in floating point numbers: every  *)
(* + and - of the components rounds its result to MantissaBits significant  *)
(* bits, as a JS number does to 53.  Dates are YYYYMMDD numbers, creation   *)
(* timestamps are ticks of the store's clock.                               *)
(***************************************************************************)
EXTENDS Integers, Sequences, FiniteSets, TLC

VARIABLES
    dbAccounts,              \* store: accounts table, id -> balance
    dbTransactions,          \* store: transactions table, in insertion order
    dbLoans,                 \* store: loans table, in insertion order
    dbAccountNames,          \* store: accounts table, id -> name
    dbBudgets,               \* store: budgets table, in insertion order
    user,                    \* identity provider: the current user or NoUser
    clock,                   \* store clock: source of created_at / returned_at
    transactions,            \* TransactionManager: loaded transactions array
    accounts,                \* TransactionManager: loaded accounts array
    selectedHistoryAccount,  \* TransactionManager: history tab selection
    selectedMonth,           \* TransactionManager: summary tab month (YYYYMM)
    historyRows,             \* TransactionManager: useMemo result (part_004)
    monthly,                 \* TransactionManager: useMemo result (part_004)
    monthlyTM,               \* TransactionManager: useMemo result (components/)
    loans,                   \* LoanManager: loaded loans array
    loanAccounts,            \* LoanManager: loaded accounts array
    budgets,                 \* BudgetsTab: loaded budgets of the month
    budgetTransactions,      \* BudgetsTab: loaded transactions of the month
    filterStatus,            \* BudgetsTab: status filter of the list
    sortBy,                  \* BudgetsTab: sort key of the list
    rows,                    \* BudgetsTab: useMemo result
    budgetMonth,             \* BudgetsTab: month, the selected month (YYYYMM)
    amAccounts,              \* AccountManager: loaded accounts array
    peerLoans,               \* a second LoanManager: loaded loans array
    peerAccounts,            \* a second LoanManager: loaded accounts array
    newTx,                   \* TransactionManager: the add-transaction form
    saving,                  \* BudgetsTab: the busy flag of saveBudget
    saveStep,                \* BudgetsTab: where a saveBudget call stands
    opening,                 \* ghost: balance of each account at the start
    faults,                  \* ghost: remote calls that failed so far
    lastOp                   \* ghost: the last handler run and its outcome

vars == <<dbAccounts, dbTransactions, dbLoans, user, clock, transactions,
          accounts, selectedHistoryAccount, selectedMonth, historyRows,
          monthly, monthlyTM, loans, loanAccounts, budgets,
          budgetTransactions, filterStatus, sortBy, rows, opening,
          faults, lastOp, dbAccountNames, dbBudgets, budgetMonth, amAccounts,
          peerLoans, peerAccounts, newTx, saving, saveStep>>

storeVars == <<dbAccounts, dbTransactions, dbLoans, user, clock, opening,
               faults, lastOp>>
loanVars == <<loans, loanAccounts>>
acctVars == <<dbAccountNames, amAccounts>>
budgetStoreVars == <<dbBudgets, budgetMonth>>
peerVars == <<peerLoans, peerAccounts>>
formVars == <<newTx>>
busyVars == <<saving, saveStep>>
otherVars == <<acctVars, budgetStoreVars, peerVars, formVars, busyVars>>
budgetVars == <<budgets, budgetTransactions, filterStatus, sortBy, rows>>
txViewVars == <<transactions, accounts, selectedHistoryAccount, selectedMonth,
                historyRows, monthly, monthlyTM>>

----------------------------------------------------------------------------
(* Bounds of the model *)

MaxTx == 2          \* loaded transactions of the history view
MaxMonthTx == 2     \* loaded transactions of the summary view
MaxDbTx == 2        \* rows of the store's transactions table
MaxLoans == 1       \* loans listed when one more may be added
MaxFaults == 1      \* remote calls that fail in one behaviour
MaxBudgets == 2     \* loaded budgets
MaxBudgetTx == 2    \* loaded transactions of the budget month
MantissaBits == 4   \* significant bits a number keeps (a JS number keeps 53)

----------------------------------------------------------------------------
(* Values *)

Null == "null"
NoUser == "none"

\* if (!user) return / if (!uid) return: there is no current user
NoUidNever(u) == FALSE

NoUid(u) == u = NoUser
AccountIds == {"A1", "A2"}
CategoryIds == {"c1", "c2"}
TxTypes == {"income", "expense", "transfer", "loan_given", "loan_received"}

\* the categories table: id -> name (the join category:categories(name))
CategoryName == [c \in CategoryIds |-> IF c = "c1" THEN "food" ELSE "rent"]

Max(a, b) == IF a >= b THEN a ELSE b

\* JS numbers are binary floating point: the result of + and - is rounded to
\* the nearest number with MantissaBits significant bits, ties to even
RECURSIVE BitLen(_)
BitLen(n) == IF n = 0 THEN 0 ELSE 1 + BitLen(n \div 2)

RECURSIVE Pow2(_)
Pow2(k) == IF k = 0 THEN 1 ELSE 2 * Pow2(k - 1)

Fl(x) ==
    LET m == IF x < 0 THEN 0 - x ELSE x
        e == BitLen(m) - MantissaBits
    IN IF e <= 0 THEN x
       ELSE LET u == Pow2(e)
                q == m \div u
                r == m % u
                up == r * 2 > u \/ (r * 2 = u /\ q % 2 = 1)
                rounded == (IF up THEN q + 1 ELSE q) * u
            IN IF x < 0 THEN 0 - rounded ELSE rounded

FAdd(a, b) == Fl(a + b)
FSub(a, b) == Fl(a - b)

RECURSIVE Reverse(_)
Reverse(s) == IF s = <<>> THEN <<>> ELSE Append(Reverse(Tail(s)), Head(s))

\* new Date(s).getTime() of a YYYYMMDD date: days, monotone in the date
DateTime(d) == ((d \div 10000) * 12 + ((d \div 100) % 100)) * 31 + (d % 100)
\* new Date(s).getTime() of a created_at timestamp
CreatedTime(c) == c * 1000
\* t.date.startsWith(month): month is YYYYMM
StartsWithMonth(d, m) == d \div 100 = m

----------------------------------------------------------------------------
(* TransactionManager.historyRows *)

\* a comparator that forgets the created_at tie-break
CompareTxDateOnly(a, b) == DateTime(a.date) - DateTime(b.date)

\* the sort comparator: by date, then by created_at
CompareTx(a, b) ==
    LET da == DateTime(a.date)
        db == DateTime(b.date)
    IN IF da # db THEN da - db
       ELSE CreatedTime(a.created_at) - CreatedTime(b.created_at)

\* Array.prototype.sort is stable: t goes after every element that does not
\* compare greater than it
RECURSIVE InsertSorted(_, _)
InsertSorted(sorted, t) ==
    IF sorted = <<>> THEN <<t>>
    ELSE IF CompareTx(Head(sorted), t) <= 0
         THEN <<Head(sorted)>> \o InsertSorted(Tail(sorted), t)
         ELSE <<t>> \o sorted

RECURSIVE SortAsc(_)
SortAsc(s) ==
    IF s = <<>> THEN <<>>
    ELSE InsertSorted(SortAsc(SubSeq(s, 1, Len(s) - 1)), s[Len(s)])

TouchesAccount(t, sel) == t.account_id = sel \/ t.to_account_id = sel

TxAsc(txs, sel) ==
    LET Keep(t) == TouchesAccount(t, sel)
    IN SortAsc(SelectSeq(txs, Keep))

\* the delta of the totalDelta reduce: three independent if statements
DeltaOf(t, sel) ==
    LET d1 == IF t.type \in {"income", "loan_received"} /\ t.account_id = sel
              THEN t.amount ELSE 0
        d2 == IF t.type \in {"expense", "loan_given"} /\ t.account_id = sel
              THEN 0 - t.amount ELSE d1
        d3 == IF t.type = "transfer" /\ t.account_id = sel
              THEN 0 - t.amount ELSE d2
        d4 == IF t.type = "transfer" /\ t.to_account_id = sel
              THEN t.amount ELSE d3
    IN d4

\* a change that takes the account's role for granted: any transaction in
\* the history counts with the sign of its type
ChangeOfAnyRole(t, sel) ==
    IF t.type \in {"income", "loan_received"} THEN t.amount
    ELSE IF t.type \in {"expense", "loan_given"} THEN 0 - t.amount
    ELSE IF t.to_account_id = sel THEN t.amount ELSE 0 - t.amount

\* a change that records a transfer on its source account only
ChangeOfNoTransferIn(t, sel) ==
    IF t.account_id # sel THEN 0
    ELSE IF t.type \in {"income", "loan_received"} THEN t.amount
    ELSE 0 - t.amount

\* the change of the replay loop: an if / else-if chain
ChangeOf(t, sel) ==
    IF t.type \in {"income", "loan_received"}
    THEN (IF t.account_id = sel THEN t.amount ELSE 0)
    ELSE IF t.type \in {"expense", "loan_given"}
    THEN (IF t.account_id = sel THEN 0 - t.amount ELSE 0)
    ELSE IF t.type = "transfer"
    THEN LET c1 == IF t.account_id = sel THEN 0 - t.amount ELSE 0
         IN IF t.to_account_id = sel THEN t.amount ELSE c1
    ELSE 0

RECURSIVE TotalDelta(_, _)
TotalDelta(txAsc, sel) ==
    IF txAsc = <<>> THEN 0
    ELSE FAdd(TotalDelta(SubSeq(txAsc, 1, Len(txAsc) - 1), sel),
              DeltaOf(txAsc[Len(txAsc)], sel))

\* a replay that adds every change to the starting balance, not to the row
\* before
ReplayFromStart(txAsc, sel, running) ==
    [i \in 1..Len(txAsc) |->
        [tx |-> txAsc[i], balance_after |-> FAdd(running, ChangeOf(txAsc[i], sel)),
         change |-> ChangeOf(txAsc[i], sel)]]

\* the for loop: running += change; out.push({...t, balance_after, change})
RECURSIVE Replay(_, _, _)
Replay(txAsc, sel, running) ==
    IF txAsc = <<>> THEN <<>>
    ELSE LET t == Head(txAsc)
             change == ChangeOf(t, sel)
             after == FAdd(running, change)
         IN <<[tx |-> t, balance_after |-> after, change |-> change]>>
            \o Replay(Tail(txAsc), sel, after)

\* accounts.find((a) => a.id === id): the index of the first hit, 0 for none
FindAccount(accs, id) ==
    LET hits == {i \in 1..Len(accs) : accs[i].id = id}
    IN IF hits = {} THEN 0 ELSE CHOOSE i \in hits : \A j \in hits : i <= j

HistoryRows(txs, sel, accs) ==
    IF sel = "" THEN <<>>
    ELSE LET i == FindAccount(accs, sel)
         IN IF i = 0 THEN <<>>
            ELSE LET txAsc == TxAsc(txs, sel)
                     totalDelta == TotalDelta(txAsc, sel)
                     running == FSub(accs[i].balance, totalDelta)
                 IN Reverse(Replay(txAsc, sel, running))

----------------------------------------------------------------------------
(* TransactionManager.monthly *)

\* reduce((s, t) => s + t.amount, 0)
RECURSIVE SumAmounts(_)
SumAmounts(s) ==
    IF s = <<>> THEN 0
    ELSE FAdd(SumAmounts(SubSeq(s, 1, Len(s) - 1)), s[Len(s)].amount)

MonthTx(txs, month) ==
    LET Keep(t) == StartsWithMonth(t.date, month)
    IN SelectSeq(txs, Keep)

\* t.category?.name: the joined category row, absent without a category_id
HasCategoryName(t) == t.category_id \in CategoryIds

\* a grouping that takes every transaction with a category, whatever its type
CategorySpendingAnyType(monthTx) ==
    LET spend == SelectSeq(monthTx, HasCategoryName)
        names == {CategoryName[spend[i].category_id] : i \in 1..Len(spend)}
    IN [n \in names |->
          LET Named(t) == CategoryName[t.category_id] = n
          IN SumAmounts(SelectSeq(spend, Named))]

CategorySpending(monthTx) ==
    LET IsCat(t) == t.type = "expense" /\ HasCategoryName(t)
        spend == SelectSeq(monthTx, IsCat)
        names == {CategoryName[spend[i].category_id] : i \in 1..Len(spend)}
    IN [n \in names |->
          LET Named(t) == CategoryName[t.category_id] = n
          IN SumAmounts(SelectSeq(spend, Named))]

\* a breakdown that leaves transfers out of the income of their destination
AccountBreakdownNoTransferIn(monthTx, accs) ==
    [k \in 1..Len(accs) |->
       LET id == accs[k].id
           Inc(t) == t.account_id = id /\ t.type \in {"income", "loan_received"}
           Exp(t) == t.account_id = id
                     /\ t.type \in {"expense", "loan_given", "transfer"}
       IN [id |-> id,
           income |-> SumAmounts(SelectSeq(monthTx, Inc)),
           expenses |-> SumAmounts(SelectSeq(monthTx, Exp))]]

AccountBreakdown(monthTx, accs) ==
    [k \in 1..Len(accs) |->
       LET id == accs[k].id
           Rel(t) == t.account_id = id \/ t.to_account_id = id
           related == SelectSeq(monthTx, Rel)
           Inc(t) == t.account_id = id /\ t.type \in {"income", "loan_received"}
           TrIn(t) == t.type = "transfer" /\ t.to_account_id = id
           Exp(t) == t.account_id = id
                     /\ t.type \in {"expense", "loan_given", "transfer"}
       IN [id |-> id,
           income |-> FAdd(SumAmounts(SelectSeq(related, Inc)),
                           SumAmounts(SelectSeq(related, TrIn))),
           expenses |-> SumAmounts(SelectSeq(related, Exp))]]

\* part_004: transfers are in neither total
Monthly(txs, accs, month) ==
    LET monthTx == MonthTx(txs, month)
        Inc(t) == t.type = "income" \/ t.type = "loan_received"
        Exp(t) == t.type = "expense" \/ t.type = "loan_given"
        totalIncome == SumAmounts(SelectSeq(monthTx, Inc))
        totalExpenses == SumAmounts(SelectSeq(monthTx, Exp))
    IN [categorySpending |-> CategorySpending(monthTx),
        accountBreakdown |-> AccountBreakdown(monthTx, accs),
        totalIncome |-> totalIncome,
        totalExpenses |-> totalExpenses,
        net |-> FSub(totalIncome, totalExpenses),
        transactionCount |-> Len(monthTx)]

\* components/TransactionManager.tsx: a transfer with a destination is added
\* to totalIncome and every transfer to totalExpenses
MonthlyTM(txs, accs, month) ==
    LET monthTx == MonthTx(txs, month)
        Inc(t) == t.type = "income" \/ t.type = "loan_received"
                  \/ (t.type = "transfer" /\ t.to_account_id # Null)
        Exp(t) == t.type = "expense" \/ t.type = "loan_given"
                  \/ t.type = "transfer"
        totalIncome == SumAmounts(SelectSeq(monthTx, Inc))
        totalExpenses == SumAmounts(SelectSeq(monthTx, Exp))
    IN [categorySpending |-> CategorySpending(monthTx),
        accountBreakdown |-> AccountBreakdown(monthTx, accs),
        totalIncome |-> totalIncome,
        totalExpenses |-> totalExpenses,
        net |-> FSub(totalIncome, totalExpenses)]

----------------------------------------------------------------------------
(* BudgetsTab.rows *)

ExceededPct == 100
WarningPct == 80

\* keyFn: `${catId}::${accId ?? 'ALL'}`
KeyFn(catId, accId) == <<catId, IF accId = Null THEN "ALL" ELSE accId>>

MapGet(m, k) == IF k \in DOMAIN m THEN m[k] ELSE 0
MapSet(m, k, v) == [x \in (DOMAIN m) \cup {k} |-> IF x = k THEN v ELSE m[x]]

\* a loop that fills the account bucket only
RECURSIVE SpentMapAccountOnly(_)
SpentMapAccountOnly(txs) ==
    IF txs = <<>> THEN <<>>
    ELSE LET m == SpentMapAccountOnly(SubSeq(txs, 1, Len(txs) - 1))
             t == txs[Len(txs)]
         IN IF t.type # "expense" \/ t.category_id = Null THEN m
            ELSE LET key == KeyFn(t.category_id, t.account_id)
                 IN MapSet(m, key, FAdd(MapGet(m, key), t.amount))

\* the loop over the loaded transactions: every expense with a category is
\* added to its account bucket and then to the all-accounts bucket
RECURSIVE SpentMap(_)
SpentMap(txs) ==
    IF txs = <<>> THEN <<>>
    ELSE LET m == SpentMap(SubSeq(txs, 1, Len(txs) - 1))
             t == txs[Len(txs)]
         IN IF t.type # "expense" \/ t.category_id = Null THEN m
            ELSE LET key == KeyFn(t.category_id, t.account_id)
                     allKey == KeyFn(t.category_id, Null)
                     m1 == MapSet(m, key, FAdd(MapGet(m, key), t.amount))
                 IN MapSet(m1, allKey, FAdd(MapGet(m1, allKey), t.amount))

\* a utilization without the Math.min
PctOfUnclamped(spent, amount) ==
    IF amount > 0 THEN [n |-> spent * 100, d |-> amount]
    ELSE [n |-> 0, d |-> 1]

\* pct is the fraction n / d (d > 0): Math.min(100, (spent / amount) * 100)
PctOf(spent, amount) ==
    IF amount > 0
    THEN (IF spent * 100 >= ExceededPct * amount
          THEN [n |-> ExceededPct, d |-> 1]
          ELSE [n |-> spent * 100, d |-> amount])
    ELSE [n |-> 0, d |-> 1]

PctGe(p, k) == p.n >= k * p.d

StatusOf(pct) ==
    IF PctGe(pct, ExceededPct) THEN "exceeded"
    ELSE IF PctGe(pct, WarningPct) THEN "warning" ELSE "safe"

BudgetRow(b, spentMap) ==
    LET spent == MapGet(spentMap, KeyFn(b.category_id, b.account_id))
        pct == PctOf(spent, b.amount)
    IN [budget |-> b,
        spent |-> spent,
        remaining |-> Max(0, FSub(b.amount, spent)),
        pct |-> pct,
        status |-> StatusOf(pct)]

PassesFilter(r, filter) ==
    IF filter = "exceeded" THEN PctGe(r.pct, ExceededPct)
    ELSE IF filter = "safe" THEN ~PctGe(r.pct, WarningPct)
    ELSE TRUE

\* the sort comparator: negative when a goes first
NameLess(x, y) == x = "food" /\ y = "rent"
CompareRow(a, b, by) ==
    IF by = "amount" THEN b.budget.amount - a.budget.amount
    ELSE IF by = "name"
    THEN LET na == CategoryName[a.budget.category_id]
             nb == CategoryName[b.budget.category_id]
         IN IF NameLess(na, nb) THEN 0 - 1 ELSE IF NameLess(nb, na) THEN 1 ELSE 0
    ELSE b.pct.n * a.pct.d - a.pct.n * b.pct.d

RECURSIVE InsertRow(_, _, _)
InsertRow(sorted, r, by) ==
    IF sorted = <<>> THEN <<r>>
    ELSE IF CompareRow(Head(sorted), r, by) <= 0
         THEN <<Head(sorted)>> \o InsertRow(Tail(sorted), r, by)
         ELSE <<r>> \o sorted

RECURSIVE SortRows(_, _)
SortRows(s, by) ==
    IF s = <<>> THEN <<>>
    ELSE InsertRow(SortRows(SubSeq(s, 1, Len(s) - 1), by), s[Len(s)], by)

Rows(buds, txs, filter, by) ==
    LET spentMap == SpentMap(txs)
        list == [i \in 1..Len(buds) |-> BudgetRow(buds[i], spentMap)]
        Keep(r) == PassesFilter(r, filter)
    IN SortRows(IF filter # "all" THEN SelectSeq(list, Keep) ELSE list, by)

----------------------------------------------------------------------------
(* The views of TransactionManager and BudgetsTab over loaded data *)

D1 == 20240301
D2 == 20240302
D3 == 20240402
March == 202403
April == 202404
Today == D2

Amounts == {1, 15}
MonthlyAmounts == {1, 2}
Balances == {0 - 1, 5}
\* one account starts empty, the other funded
OpeningBalances == ("A1" :> 0) @@ ("A2" :> 5)
\* the names of the two accounts
AccountNames == ("A1" :> "Cash") @@ ("A2" :> "Bank")

Tx(id, type, amount, acc, to, cat, date, created) ==
    [id |-> id, type |-> type, amount |-> amount, account_id |-> acc,
     to_account_id |-> to, category_id |-> cat, date |-> date,
     created_at |-> created]

\* a sort of the loaded array itself, in place
TransactionsSortedInPlace(txs, sel) == SortAsc(txs)

\* the array transactions after historyRows ran: filter() and slice() copy
\* it, so the sort leaves it as it was
TransactionsAfterHistory(txs, sel) == txs

InitStore ==
    /\ dbAccounts = OpeningBalances
    /\ dbTransactions = <<>>
    /\ dbLoans = <<>>
    /\ user = "u1"
    /\ clock = 1
    /\ opening = dbAccounts
    /\ faults = 0
    /\ lastOp = [op |-> "init", result |-> "ok"]
    /\ dbAccountNames = AccountNames
    /\ dbBudgets = <<>>

InitLoanManager ==
    /\ loans = <<>>
    /\ loanAccounts = <<>>
    /\ peerLoans = <<>>
    /\ peerAccounts = <<>>

InitAccountManager == amAccounts = <<>>

InitBudgetsTab ==
    /\ budgets = <<>>
    /\ budgetTransactions = <<>>
    /\ filterStatus = "all"
    /\ sortBy = "usage"
    /\ rows = Rows(budgets, budgetTransactions, filterStatus, sortBy)
    /\ budgetMonth = March
    /\ saving = FALSE
    /\ saveStep = "idle"

\* the form as useState creates it
InitForm == newTx = [type |-> "expense", account_id |-> "", to_account_id |-> ""]

InitView(accs) ==
    /\ InitForm
    /\ transactions = <<>>
    /\ accounts = accs
    /\ selectedHistoryAccount = ""
    /\ selectedMonth = March
    /\ historyRows = HistoryRows(transactions, selectedHistoryAccount, accounts)
    /\ monthly = Monthly(transactions, accounts, selectedMonth)
    /\ monthlyTM = MonthlyTM(transactions, accounts, selectedMonth)

\* a render: the three memos are recomputed from the new state
Render(txs, accs, sel, month) ==
    /\ transactions' = TransactionsAfterHistory(txs, sel)
    /\ accounts' = accs
    /\ selectedHistoryAccount' = sel
    /\ selectedMonth' = month
    /\ historyRows' = HistoryRows(txs, sel, accs)
    /\ monthly' = Monthly(txs, accs, month)
    /\ monthlyTM' = MonthlyTM(txs, accs, month)

\* --- history view: any loaded array, any selection ---

HistoryRoles(type) ==
    IF type = "transfer"
    THEN {<<"A1", "A2">>, <<"A2", "A1">>, <<"A1", "A1">>}
    ELSE {<<"A1", Null>>, <<"A2", "A1">>}

HistoryStamps == {<<D1, 1>>, <<D1, 2>>, <<D2, 1>>}

InitHistory ==
    /\ InitStore /\ InitLoanManager /\ InitBudgetsTab /\ InitAccountManager
    /\ \E b1 \in Balances, b2 \in Balances :
          InitView(<<[id |-> "A1", balance |-> b1], [id |-> "A2", balance |-> b2]>>)

HLoadTransaction ==
    /\ Len(transactions) < MaxTx
    /\ \E type \in TxTypes, amount \in Amounts, stamp \in HistoryStamps :
         \E role \in HistoryRoles(type) :
            Render(Append(transactions,
                          Tx(Len(transactions) + 1, type, amount, role[1],
                             role[2], Null, stamp[1], stamp[2])),
                   accounts, selectedHistoryAccount, selectedMonth)
    /\ UNCHANGED <<storeVars, loanVars, otherVars, budgetVars>>

\* setSelectedHistoryAccount(e.target.value)
SelectHistoryAccount ==
    /\ \E a \in AccountIds :
          /\ a # selectedHistoryAccount
          /\ Render(transactions, accounts, a, selectedMonth)
    /\ UNCHANGED <<storeVars, loanVars, otherVars, budgetVars>>

NextHistory == HLoadTransaction \/ SelectHistoryAccount

SpecHistory == InitHistory /\ [][NextHistory]_vars

\* --- summary view: any loaded array, any month ---

MonthlyRoles(type) ==
    IF type = "transfer"
    THEN {<<"A1", "A2">>, <<"A2", "A1">>, <<"A1", Null>>}
    ELSE {<<"A1", Null>>, <<"A2", Null>>}

\* the handlers store a category with an expense only; a loaded income may
\* carry one all the same
MonthlyCategories(type) ==
    IF type = "expense" THEN CategoryIds \cup {Null}
    ELSE IF type = "income" THEN {Null, "c1"}
    ELSE {Null}

InitMonthly ==
    /\ InitStore /\ InitLoanManager /\ InitBudgetsTab /\ InitAccountManager
    /\ InitView(<<[id |-> "A1", balance |-> 5], [id |-> "A2", balance |-> 5]>>)

MLoadTransaction ==
    /\ Len(transactions) < MaxMonthTx
    /\ \E type \in TxTypes, amount \in MonthlyAmounts, date \in {D1, D3} :
         \E role \in MonthlyRoles(type), cat \in MonthlyCategories(type) :
            Render(Append(transactions,
                          Tx(Len(transactions) + 1, type, amount, role[1],
                             role[2], cat, date, 1)),
                   accounts, selectedHistoryAccount, selectedMonth)
    /\ UNCHANGED <<storeVars, loanVars, otherVars, budgetVars>>

\* setSelectedMonth(e.target.value)
SelectMonth ==
    /\ \E m \in {March, April} :
          /\ m # selectedMonth
          /\ Render(transactions, accounts, selectedHistoryAccount, m)
    /\ UNCHANGED <<storeVars, loanVars, otherVars, budgetVars>>

NextMonthly == MLoadTransaction \/ SelectMonth

SpecMonthly == InitMonthly /\ [][NextMonthly]_vars

\* --- budgets view: any loaded budgets and transactions of the month ---

BudgetTargets == {0, 5, 6}
BudgetSpends == {1, 4}

BudgetTxInputs ==
    {Tx(0, "expense", amount, acc, Null, cat, D1, 1) :
        amount \in BudgetSpends, acc \in AccountIds \cup {Null},
        cat \in {"c1", Null}}
    \cup {Tx(0, "expense", 4, "A1", Null, "c2", D1, 1),
          Tx(0, "income", 4, "A1", Null, "c1", D1, 1),
          Tx(0, "transfer", 4, "A1", "A2", "c1", D1, 1)}

InitBudgets ==
    /\ InitStore /\ InitLoanManager /\ InitAccountManager
    /\ InitView(<<[id |-> "A1", balance |-> 5], [id |-> "A2", balance |-> 5]>>)
    /\ InitBudgetsTab

RenderBudgets(buds, txs, filter, by) ==
    /\ budgets' = buds
    /\ budgetTransactions' = txs
    /\ filterStatus' = filter
    /\ sortBy' = by
    /\ rows' = Rows(buds, txs, filter, by)

BLoadBudget ==
    /\ Len(budgets) < MaxBudgets
    /\ \E cat \in CategoryIds, acc \in {"A1", Null}, amount \in BudgetTargets :
          RenderBudgets(Append(budgets,
                               [id |-> Len(budgets) + 1, category_id |-> cat,
                                account_id |-> acc, month |-> March,
                                amount |-> amount]),
                        budgetTransactions, filterStatus, sortBy)
    /\ UNCHANGED <<storeVars, loanVars, otherVars, txViewVars>>

BLoadTransaction ==
    /\ Len(budgetTransactions) < MaxBudgetTx
    /\ \E t \in BudgetTxInputs :
          RenderBudgets(budgets,
                        Append(budgetTransactions,
                               [t EXCEPT !.id = Len(budgetTransactions) + 1]),
                        filterStatus, sortBy)
    /\ UNCHANGED <<storeVars, loanVars, otherVars, txViewVars>>

\* setFilterStatus(e.target.value)
SetFilterStatus ==
    /\ \E f \in {"all", "exceeded", "safe"} :
          /\ f # filterStatus
          /\ RenderBudgets(budgets, budgetTransactions, f, sortBy)
    /\ UNCHANGED <<storeVars, loanVars, otherVars, txViewVars>>

\* setSortBy(e.target.value)
SetSortBy ==
    /\ \E by \in {"usage", "amount", "name"} :
          /\ by # sortBy
          /\ RenderBudgets(budgets, budgetTransactions, filterStatus, by)
    /\ UNCHANGED <<storeVars, loanVars, otherVars, txViewVars>>

NextBudgets == BLoadBudget \/ BLoadTransaction \/ SetFilterStatus \/ SetSortBy

SpecBudgets == InitBudgets /\ [][NextBudgets]_vars

----------------------------------------------------------------------------
(* The store and the handlers that write to it *)

FormAmounts == {"-1", "0", "1"}

\* parseFloat of the value of a number input
ParseFloat(str) ==
    CASE str = "-1" -> 0 - 1
      [] str = "0" -> 0
      [] str = "1" -> 1
      [] str = "" -> 0

\* select('id, name, balance').order('name')
SelectAccounts(db) ==
    <<[id |-> "A1", balance |-> db["A1"]], [id |-> "A2", balance |-> db["A2"]]>>

\* order('date', desc).order('created_at', desc): t goes before every row
\* that is older
RECURSIVE InsertNewestFirst(_, _)
InsertNewestFirst(sorted, t) ==
    IF sorted = <<>> THEN <<t>>
    ELSE IF \/ Head(sorted).date > t.date
            \/ (Head(sorted).date = t.date /\ Head(sorted).created_at > t.created_at)
         THEN <<Head(sorted)>> \o InsertNewestFirst(Tail(sorted), t)
         ELSE <<t>> \o sorted

RECURSIVE SelectTransactions(_)
SelectTransactions(db) ==
    IF db = <<>> THEN <<>>
    ELSE InsertNewestFirst(SelectTransactions(Tail(db)), Head(db))

\* select(*).order('date_given', desc)
SelectLoans(db) == Reverse(db)

\* insert into transactions: the store gives the row its id and created_at
InsertTransaction(db, payload, now) ==
    Append(db, Tx(now, payload.type, payload.amount, payload.account_id,
                  payload.to_account_id, payload.category_id, payload.date, now))

Done(op, result) == lastOp' = [op |-> op, result |-> result]

\* TransactionManager.loadData
LoadData(dbTx, dbAcc) ==
    LET accs == SelectAccounts(dbAcc)
    IN Render(SelectTransactions(dbTx), accs,
              IF selectedHistoryAccount = "" THEN accs[1].id
              ELSE selectedHistoryAccount,
              selectedMonth)

\* LoanManager.loadData
LoanLoadData(dbL, dbAcc) ==
    /\ loans' = SelectLoans(dbL)
    /\ loanAccounts' = SelectAccounts(dbAcc)

\* the forms the add-transaction dialog can submit: the destination select
\* lists the other accounts, the category select is shown for an expense
TxForms ==
    {[type |-> type, amount |-> amount, account_id |-> acc,
      to_account_id |-> to, category_id |-> cat, date |-> Today] :
        type \in TxTypes, amount \in FormAmounts, acc \in AccountIds,
        to \in AccountIds \cup {""}, cat \in {"c1", ""}}

Submittable(form) ==
    /\ form.to_account_id # form.account_id
    /\ (form.type = "transfer") = (form.to_account_id # "")
    /\ (form.type = "expense") = (form.category_id # "")

OrNull(str) == IF str = "" THEN Null ELSE str

\* addTransaction of part_004
AddTransactionOf(form) ==
        /\ IF NoUid(user)
           THEN /\ Done("addTransaction", "rejected")
                /\ UNCHANGED <<dbTransactions, clock, faults, txViewVars>>
           ELSE LET payload ==
                      [type |-> form.type,
                       amount |-> ParseFloat(form.amount),
                       date |-> form.date,
                       account_id |-> OrNull(form.account_id),
                       to_account_id |-> IF form.type = "transfer"
                                         THEN OrNull(form.to_account_id) ELSE Null,
                       category_id |-> IF form.type = "expense"
                                       THEN OrNull(form.category_id) ELSE Null]
                IN IF payload.amount <= 0
                   THEN /\ Done("addTransaction", "rejected")
                        /\ UNCHANGED <<dbTransactions, clock, faults, txViewVars>>
                   ELSE \/ /\ faults < MaxFaults
                           /\ faults' = faults + 1
                           /\ Done("addTransaction", "error")
                           /\ UNCHANGED <<dbTransactions, clock, txViewVars>>
                        \/ /\ Len(dbTransactions) < MaxDbTx
                           /\ dbTransactions' =
                                 InsertTransaction(dbTransactions, payload, clock)
                           /\ clock' = clock + 1
                           /\ LoadData(dbTransactions', dbAccounts)
                           /\ Done("addTransaction", "ok")
                           /\ UNCHANGED faults
        /\ UNCHANGED <<dbAccounts, dbLoans, user, opening, loanVars, budgetVars,
                       acctVars, budgetStoreVars, peerVars, busyVars>>

\* the handler run on a form the dialog lets through, the form left aside
AddTransaction ==
    \E form \in TxForms :
        /\ Submittable(form)
        /\ AddTransactionOf(form)
        /\ UNCHANGED formVars

\* addTransaction of components/TransactionManager.tsx: no amount check
AddTransactionTMOf(form) ==
        /\ IF NoUid(user)
           THEN /\ Done("addTransactionTM", "rejected")
                /\ UNCHANGED <<dbTransactions, clock, faults, txViewVars>>
           ELSE LET payload ==
                      [type |-> form.type,
                       amount |-> ParseFloat(form.amount),
                       date |-> form.date,
                       account_id |-> OrNull(form.account_id),
                       to_account_id |-> IF form.type = "transfer"
                                         THEN form.to_account_id ELSE Null,
                       category_id |-> IF form.type = "expense"
                                       THEN form.category_id ELSE Null]
                IN \/ /\ faults < MaxFaults
                      /\ faults' = faults + 1
                      /\ Done("addTransactionTM", "error")
                      /\ UNCHANGED <<dbTransactions, clock, txViewVars>>
                   \/ /\ Len(dbTransactions) < MaxDbTx
                      /\ dbTransactions' =
                            InsertTransaction(dbTransactions, payload, clock)
                      /\ clock' = clock + 1
                      /\ LoadData(dbTransactions', dbAccounts)
                      /\ Done("addTransactionTM", "ok")
                      /\ UNCHANGED faults
        /\ UNCHANGED <<dbAccounts, dbLoans, user, opening, loanVars, budgetVars,
                       acctVars, budgetStoreVars, peerVars, busyVars>>

AddTransactionTM ==
    \E form \in TxForms :
        /\ Submittable(form)
        /\ AddTransactionTMOf(form)
        /\ UNCHANGED formVars

LoanTypes == {"given", "received"}

Loan(id, amount, type, acc, returned, returnedAt) ==
    [id |-> id, amount |-> amount, type |-> type, account_id |-> acc,
     is_returned |-> returned, returned_at |-> returnedAt]

DeleteEvery(db, id) == <<>>

\* delete().eq('id', id)
DeleteById(db, id) ==
    LET Keep(r) == r.id # id
    IN SelectSeq(db, Keep)

\* update({ is_returned, returned_at }).eq('id', id)
UpdateLoan(db, id, returned, returnedAt) ==
    [i \in 1..Len(db) |->
        IF db[i].id = id
        THEN [db[i] EXCEPT !.is_returned = returned, !.returned_at = returnedAt]
        ELSE db[i]]

UpdateBalanceDropped(db, id, balance) == db

\* update({ balance }).eq('id', id)
UpdateBalance(db, id, balance) == [db EXCEPT ![id] = balance]

AuditTx(type, amount, acc) ==
    [type |-> type, amount |-> amount, date |-> Today, account_id |-> acc,
     to_account_id |-> Null, category_id |-> Null]

\* a guard that lets every amount through
InsufficientNever(balance, amount) == FALSE

\* addLoan's check for money given: selectedAccount.balance < amount
Insufficient(balance, amount) == balance < amount

\* LoanManager.addLoan
AddLoan ==
    \E type \in LoanTypes, amountStr \in FormAmounts, acc \in AccountIds :
        LET amount == ParseFloat(amountStr)
            k == FindAccount(loanAccounts, acc)
            balance == loanAccounts[k].balance
            newBalance == IF type = "given" THEN FSub(balance, amount)
                          ELSE FAdd(balance, amount)
            loan == Loan(clock, amount, type, acc, FALSE, Null)
            audit == AuditTx(IF type = "given" THEN "loan_given"
                             ELSE "loan_received", amount, acc)
        IN /\ IF NoUid(user) \/ k = 0
              THEN /\ Done("addLoan", "rejected")
                   /\ UNCHANGED <<dbAccounts, dbTransactions, dbLoans, clock,
                                  faults, loanVars>>
              ELSE IF type = "given" /\ Insufficient(balance, amount)
              THEN /\ Done("addLoan", "rejected")
                   /\ UNCHANGED <<dbAccounts, dbTransactions, dbLoans, clock,
                                  faults, loanVars>>
              ELSE /\ Len(loans) < MaxLoans
                   /\ Len(dbTransactions) < MaxDbTx
                   /\ clock' = clock + 1
                   /\ \/ \* the loan insert fails
                         /\ faults < MaxFaults
                         /\ faults' = faults + 1
                         /\ Done("addLoan", "error")
                         /\ UNCHANGED <<dbAccounts, dbTransactions, dbLoans,
                                        loanVars>>
                      \/ \* the balance update fails, the loan is deleted again
                         /\ faults < MaxFaults
                         /\ faults' = faults + 1
                         /\ dbLoans' = DeleteById(Append(dbLoans, loan), loan.id)
                         /\ Done("addLoan", "error")
                         /\ UNCHANGED <<dbAccounts, dbTransactions, loanVars>>
                      \/ \* the balance update and the delete both fail
                         /\ faults + 1 < MaxFaults
                         /\ faults' = faults + 2
                         /\ dbLoans' = Append(dbLoans, loan)
                         /\ Done("addLoan", "error")
                         /\ UNCHANGED <<dbAccounts, dbTransactions, loanVars>>
                      \/ \* the audit insert fails: its result is not read
                         /\ faults < MaxFaults
                         /\ faults' = faults + 1
                         /\ dbLoans' = Append(dbLoans, loan)
                         /\ dbAccounts' = UpdateBalance(dbAccounts, acc, newBalance)
                         /\ LoanLoadData(dbLoans', dbAccounts')
                         /\ Done("addLoan", "ok")
                         /\ UNCHANGED dbTransactions
                      \/ \* every write succeeds
                         /\ dbLoans' = Append(dbLoans, loan)
                         /\ dbAccounts' = UpdateBalance(dbAccounts, acc, newBalance)
                         /\ dbTransactions' =
                               InsertTransaction(dbTransactions, audit, clock)
                         /\ LoanLoadData(dbLoans', dbAccounts')
                         /\ Done("addLoan", "ok")
                         /\ UNCHANGED faults
           /\ UNCHANGED <<user, opening, txViewVars, budgetVars, otherVars>>

\* the balance toggleLoanStatus writes: returning reverses the loan's
\* change, un-returning applies it again
ToggledBalance(loan, balance, newStatus) ==
    IF newStatus
    THEN (IF loan.type = "given" THEN FAdd(balance, loan.amount)
          ELSE FSub(balance, loan.amount))
    ELSE (IF loan.type = "given" THEN FSub(balance, loan.amount)
          ELSE FAdd(balance, loan.amount))

\* LoanManager.toggleLoanStatus(loan.id, loan.is_returned) of a listed loan
ToggleLoanStatus ==
    \E n \in 1..Len(loans) :
        LET loan == loans[n]
            id == loan.id
            currentStatus == loan.is_returned
            k == FindAccount(loanAccounts, loan.account_id)
            balance == loanAccounts[k].balance
            newStatus == ~currentStatus
            newBalance == ToggledBalance(loan, balance, newStatus)
            audit == AuditTx(IF loan.type = "given" THEN "loan_received"
                             ELSE "loan_given", loan.amount, loan.account_id)
            toggled == UpdateLoan(dbLoans, id, newStatus,
                                  IF newStatus THEN clock ELSE Null)
        IN /\ IF k = 0
              THEN /\ Done("toggleLoanStatus", "rejected")
                   /\ UNCHANGED <<dbAccounts, dbTransactions, dbLoans, clock,
                                  faults, loanVars>>
              ELSE IF newBalance < 0 \/ NoUid(user)
              THEN /\ Done("toggleLoanStatus", "rejected")
                   /\ UNCHANGED <<dbAccounts, dbTransactions, dbLoans, clock,
                                  faults, loanVars>>
              ELSE /\ newStatus => Len(dbTransactions) < MaxDbTx
                   /\ clock' = clock + 2
                   /\ \/ \* the loan update fails
                         /\ faults < MaxFaults
                         /\ faults' = faults + 1
                         /\ Done("toggleLoanStatus", "error")
                         /\ UNCHANGED <<dbAccounts, dbTransactions, dbLoans,
                                        loanVars>>
                      \/ \* the balance update fails, the loan is set back
                         /\ faults < MaxFaults
                         /\ faults' = faults + 1
                         /\ dbLoans' = UpdateLoan(toggled, id, currentStatus,
                                           IF currentStatus THEN clock + 1 ELSE Null)
                         /\ Done("toggleLoanStatus", "error")
                         /\ UNCHANGED <<dbAccounts, dbTransactions, loanVars>>
                      \/ \* the balance update and the set-back both fail
                         /\ faults + 1 < MaxFaults
                         /\ faults' = faults + 2
                         /\ dbLoans' = toggled
                         /\ Done("toggleLoanStatus", "error")
                         /\ UNCHANGED <<dbAccounts, dbTransactions, loanVars>>
                      \/ \* the audit insert fails: its result is not read
                         /\ newStatus
                         /\ faults < MaxFaults
                         /\ faults' = faults + 1
                         /\ dbLoans' = toggled
                         /\ dbAccounts' = UpdateBalance(dbAccounts, loan.account_id,
                                                        newBalance)
                         /\ LoanLoadData(dbLoans', dbAccounts')
                         /\ Done("toggleLoanStatus", "ok")
                         /\ UNCHANGED dbTransactions
                      \/ \* every write succeeds
                         /\ dbLoans' = toggled
                         /\ dbAccounts' = UpdateBalance(dbAccounts, loan.account_id,
                                                        newBalance)
                         /\ dbTransactions' =
                               IF newStatus
                               THEN InsertTransaction(dbTransactions, audit, clock)
                               ELSE dbTransactions
                         /\ LoanLoadData(dbLoans', dbAccounts')
                         /\ Done("toggleLoanStatus", "ok")
                         /\ UNCHANGED faults
           /\ UNCHANGED <<user, opening, txViewVars, budgetVars, otherVars>>

\* the loans view is opened or refreshed: LoanManager.loadData
OpenLoans ==
    /\ LoanLoadData(dbLoans, dbAccounts)
    /\ Done("loanLoadData", "ok")
    /\ UNCHANGED <<dbAccounts, dbTransactions, dbLoans, user, clock, opening,
                   faults, txViewVars, budgetVars, otherVars>>

\* both views are mounted and their first loadData has returned
Init ==
    /\ InitStore
    /\ InitBudgetsTab
    /\ InitAccountManager
    /\ peerLoans = <<>>
    /\ peerAccounts = <<>>
    /\ loans = SelectLoans(dbLoans)
    /\ loanAccounts = SelectAccounts(dbAccounts)
    /\ transactions = SelectTransactions(dbTransactions)
    /\ accounts = SelectAccounts(dbAccounts)
    /\ newTx = [type |-> "expense", account_id |-> accounts[1].id,
                to_account_id |-> ""]
    /\ selectedHistoryAccount = accounts[1].id
    /\ selectedMonth = March
    /\ historyRows = HistoryRows(transactions, selectedHistoryAccount, accounts)
    /\ monthly = Monthly(transactions, accounts, selectedMonth)
    /\ monthlyTM = MonthlyTM(transactions, accounts, selectedMonth)

Next ==
    \/ OpenLoans
    \/ AddTransaction
    \/ AddTransactionTM
    \/ AddLoan
    \/ ToggleLoanStatus

Spec == Init /\ [][Next]_vars

----------------------------------------------------------------------------
(* AccountManager over the store (SpecAccounts) *)

MaxNewAccounts == 2     \* accounts added to the two of the start

\* the ids the store gives to accounts, in creation order
AccountIdSeq == <<"A1", "A2", "A3", "A4", "A5">>

\* what can be typed into the name field
NameInputs == {"Cash", "cash ", "CASH", "Gold", "gold", "Savings", "  "}

\* String.prototype.trim
Trim(str) ==
    CASE str = "cash " -> "cash"
      [] str = "  " -> ""
      [] OTHER -> str

\* String.prototype.toLowerCase
ToLowerCase(str) ==
    CASE str \in {"Cash", "CASH", "cash"} -> "cash"
      [] str = "Gold" -> "gold"
      [] str = "Savings" -> "savings"
      [] str = "Bank" -> "bank"
      [] OTHER -> str

\* parseFloat(newAccount.balance) || 0
BalanceInputs == {"", "1"}
ParseBalance(str) == IF str = "1" THEN 1 ELSE 0

\* select('*').order('created_at', desc)
RECURSIVE SelectAccountRows(_, _, _)
SelectAccountRows(names, balances, k) ==
    IF k = 0 THEN <<>>
    ELSE IF AccountIdSeq[k] \in DOMAIN names
    THEN <<[id |-> AccountIdSeq[k], name |-> names[AccountIdSeq[k]],
            balance |-> balances[AccountIdSeq[k]]]>>
         \o SelectAccountRows(names, balances, k - 1)
    ELSE SelectAccountRows(names, balances, k - 1)

\* accounts.some((a) => a.name.toLowerCase() === name.toLowerCase())
NameTaken(accs, name) ==
    \E i \in 1..Len(accs) : ToLowerCase(accs[i].name) = ToLowerCase(name)

accountFrame == <<dbTransactions, dbLoans, user, clock, loanVars, peerVars,
                  budgetStoreVars, txViewVars, budgetVars, formVars,
                  busyVars>>

\* AccountManager.loadAccounts: a failed select leaves the list as it was
LoadAccounts ==
    /\ \/ /\ amAccounts' = IF user = NoUser THEN <<>>
                           ELSE SelectAccountRows(dbAccountNames, dbAccounts,
                                                  Len(AccountIdSeq))
          /\ Done("loadAccounts", "ok")
          /\ UNCHANGED faults
       \/ /\ user # NoUser
          /\ faults < MaxFaults
          /\ faults' = faults + 1
          /\ Done("loadAccounts", "error")
          /\ UNCHANGED amAccounts
    /\ UNCHANGED <<dbAccounts, dbAccountNames, opening, accountFrame>>

\* AccountManager.addAccount with the form's name and balance fields
AddAccountOf(input, balanceStr) ==
        LET name == Trim(input)
            n == Cardinality(DOMAIN opening)    \* accounts created so far
            id == AccountIdSeq[n + 1]
            balance == ParseBalance(balanceStr)
        IN /\ IF name = "" \/ NoUid(user) \/ NameTaken(amAccounts, name)
              THEN /\ Done("addAccount", "rejected")
                   /\ UNCHANGED <<dbAccounts, dbAccountNames, opening,
                                  amAccounts, faults>>
              ELSE /\ n < Cardinality(AccountIds) + MaxNewAccounts
                   /\ \/ \* the insert fails
                         /\ faults < MaxFaults
                         /\ faults' = faults + 1
                         /\ Done("addAccount", "error")
                         /\ UNCHANGED <<dbAccounts, dbAccountNames, opening,
                                        amAccounts>>
                      \/ \* the insert succeeds, the reload fails
                         /\ faults < MaxFaults
                         /\ faults' = faults + 1
                         /\ dbAccountNames' = (id :> name) @@ dbAccountNames
                         /\ dbAccounts' = (id :> balance) @@ dbAccounts
                         /\ opening' = (id :> balance) @@ opening
                         /\ Done("addAccount", "ok")
                         /\ UNCHANGED amAccounts
                      \/ \* the insert and the reload succeed
                         /\ dbAccountNames' = (id :> name) @@ dbAccountNames
                         /\ dbAccounts' = (id :> balance) @@ dbAccounts
                         /\ opening' = (id :> balance) @@ opening
                         /\ amAccounts' =
                               SelectAccountRows(dbAccountNames', dbAccounts',
                                                 Len(AccountIdSeq))
                         /\ Done("addAccount", "ok")
                         /\ UNCHANGED faults
           /\ UNCHANGED accountFrame

\* the form is submitted with its required name field filled in
AddAccount ==
    \E input \in NameInputs, balanceStr \in BalanceInputs :
        /\ input # ""
        /\ AddAccountOf(input, balanceStr)

\* the accounts tab is mounted and its first loadAccounts has returned
InitAccounts ==
    /\ InitStore /\ InitLoanManager /\ InitBudgetsTab
    /\ InitView(<<>>)
    /\ amAccounts = SelectAccountRows(dbAccountNames, dbAccounts,
                                      Len(AccountIdSeq))

NextAccounts == LoadAccounts \/ AddAccount

SpecAccounts == InitAccounts /\ [][NextAccounts]_vars

-----------------------------------------------------------------------------
(* AccountManager with edits and deletes (SpecAccountEdit)                  *)

\* a store without the row of id
WithoutAccount(db, id) == [k \in (DOMAIN db) \ {id} |-> db[k]]

\* update({ ...changes }).eq('id', id): no row, no change
UpdateAccount(db, id, value) ==
    IF id \in DOMAIN db THEN [db EXCEPT ![id] = value] ELSE db

\* the reload after a write: loadAccounts, which keeps the list when its
\* select fails
ReloadAccounts(names, balances) ==
    \/ /\ amAccounts' = SelectAccountRows(names, balances, Len(AccountIdSeq))
       /\ UNCHANGED faults
    \/ /\ faults < MaxFaults
       /\ faults' = faults + 1
       /\ UNCHANGED amAccounts

\* what is typed over the name in the edit form
EditNameInputs == {"cash ", "Gold", "  "}

\* EditInlineMobile.handleSave and AccountManager.saveEdit of a listed account:
\* the name field trimmed, the balance field left as loaded
SaveEdit ==
    \E n \in 1..Len(amAccounts) :
    \E input \in EditNameInputs \cup {amAccounts[n].name},
       balance \in {amAccounts[n].balance} :
        LET id == amAccounts[n].id
            name == Trim(input)
        IN /\ IF name = ""
              THEN /\ Done("saveEdit", "rejected")
                   /\ UNCHANGED <<dbAccounts, dbAccountNames, amAccounts, faults>>
              ELSE \/ \* the update fails
                      /\ faults < MaxFaults
                      /\ faults' = faults + 1
                      /\ Done("saveEdit", "error")
                      /\ UNCHANGED <<dbAccounts, dbAccountNames, amAccounts>>
                   \/ /\ dbAccountNames' = UpdateAccount(dbAccountNames, id, name)
                      /\ dbAccounts' = UpdateAccount(dbAccounts, id, balance)
                      /\ ReloadAccounts(dbAccountNames', dbAccounts')
                      /\ Done("saveEdit", "ok")
           /\ UNCHANGED <<opening, accountFrame>>

\* AccountManager.deleteAccount of a listed account
DeleteAccount ==
    \E n \in 1..Len(amAccounts) :
        LET id == amAccounts[n].id
        IN /\ \/ \* confirm() is declined
                 /\ Done("deleteAccount", "declined")
                 /\ UNCHANGED <<dbAccounts, dbAccountNames, amAccounts, faults>>
              \/ \* the delete fails
                 /\ faults < MaxFaults
                 /\ faults' = faults + 1
                 /\ Done("deleteAccount", "error")
                 /\ UNCHANGED <<dbAccounts, dbAccountNames, amAccounts>>
              \/ /\ dbAccountNames' = WithoutAccount(dbAccountNames, id)
                 /\ dbAccounts' = WithoutAccount(dbAccounts, id)
                 /\ ReloadAccounts(dbAccountNames', dbAccounts')
                 /\ Done("deleteAccount", "ok")
           /\ UNCHANGED <<opening, accountFrame>>

\* addAccount with one of the names of the edit form and an empty balance
AddEditedName ==
    \E input \in EditNameInputs :
        /\ input # ""
        /\ AddAccountOf(input, "")

NextAccountEdit == LoadAccounts \/ AddEditedName \/ SaveEdit \/ DeleteAccount

SpecAccountEdit == InitAccounts /\ [][NextAccountEdit]_vars

----------------------------------------------------------------------------
(* BudgetsTab over the store (SpecBudgetStore) *)

MaxDbBudgets == 2       \* rows of the store's budgets table
MaxBudgetClock == 4     \* budgets ever created

BudgetFormAmounts == {"", "5"}
BudgetFormAccounts == {"all", "A1"}

\* parseFloat(form.amount || '0')
ParseAmount(str) == IF str = "5" THEN 5 ELSE 0

\* the templates, amounts in thousands; only the categories that can match
\* a stored category by name, and one that cannot
templates ==
    <<[name |-> "Essential Living",
       categories |-> <<[name |-> "food", amount |-> 15],
                        [name |-> "transport", amount |-> 5]>>],
      [name |-> "Young Professional",
       categories |-> <<[name |-> "food", amount |-> 12],
                        [name |-> "gym", amount |-> 2]>>]>>

\* categories.find(c => c.name.toLowerCase() === name.toLowerCase())
FindCategory(name) ==
    IF \E c \in CategoryIds : CategoryName[c] = name
    THEN CHOOSE c \in CategoryIds : CategoryName[c] = name
    ELSE Null

\* select(*).eq('month', month).order('created_at', desc)
SelectBudgets(db, m) ==
    LET OfMonth(b) == b.month = m
    IN Reverse(SelectSeq(db, OfMonth))

\* the transactions of the month: gte('date', month-01).lte('date', month-31)
SelectMonthTransactions(db, m) ==
    LET OfMonth(t) == StartsWithMonth(t.date, m)
    IN SelectSeq(db, OfMonth)

\* BudgetsTab.loadAll: a failed budgets query gives data null, shown as []
LoadAll(dbB, dbT, m, ok) ==
    RenderBudgets(IF ok THEN SelectBudgets(dbB, m) ELSE <<>>,
                  SelectMonthTransactions(dbT, m), filterStatus, sortBy)

\* budgets.find(b => b.category_id === cat && b.account_id === acc)
FindBudget(buds, cat, acc) ==
    \E i \in 1..Len(buds) :
        buds[i].category_id = cat /\ buds[i].account_id = acc

\* update(payload).eq('id', id)
UpdateBudget(db, id, payload) ==
    [i \in 1..Len(db) |->
        IF db[i].id = id
        THEN [db[i] EXCEPT !.category_id = payload.category_id,
                           !.account_id = payload.account_id,
                           !.month = payload.month,
                           !.amount = payload.amount]
        ELSE db[i]]

budgetFrame == <<dbAccounts, dbTransactions, dbLoans, user, opening, loanVars,
                 acctVars, peerVars, txViewVars, formVars, busyVars>>

\* a store write of BudgetsTab followed by loadAll, or the write failing
BudgetWrite(op, db) ==
    \/ /\ faults < MaxFaults
       /\ faults' = faults + 1
       /\ Done(op, "error")
       /\ UNCHANGED <<dbBudgets, budgetVars>>
    \/ /\ faults < MaxFaults
       /\ faults' = faults + 1
       /\ dbBudgets' = db
       /\ LoadAll(db, dbTransactions, budgetMonth, FALSE)
       /\ Done(op, "ok")
    \/ /\ dbBudgets' = db
       /\ LoadAll(db, dbTransactions, budgetMonth, TRUE)
       /\ Done(op, "ok")
       /\ UNCHANGED faults

\* BudgetsTab.saveBudget from getUser to loadAll: editIdx is the budget being
\* edited, 0 for none
SaveBudgetOf(editIdx, cat, acc, amountStr) ==
        LET payload == [id |-> clock,
                        category_id |-> cat,
                        account_id |-> IF acc = "all" THEN Null ELSE acc,
                        month |-> budgetMonth,
                        amount |-> ParseAmount(amountStr)]
        IN /\ IF NoUid(user) \/ cat = "" \/ amountStr = ""
              THEN /\ Done("saveBudget", "rejected")
                   /\ UNCHANGED <<dbBudgets, budgetVars, faults, clock>>
              ELSE IF editIdx # 0
              THEN /\ BudgetWrite("saveBudget",
                                  UpdateBudget(dbBudgets, budgets[editIdx].id,
                                               payload))
                   /\ UNCHANGED clock
              ELSE IF FindBudget(budgets, payload.category_id,
                                 payload.account_id)
              THEN /\ Done("saveBudget", "rejected")
                   /\ UNCHANGED <<dbBudgets, budgetVars, faults, clock>>
              ELSE /\ Len(dbBudgets) < MaxDbBudgets
                   /\ clock <= MaxBudgetClock
                   /\ BudgetWrite("saveBudget", Append(dbBudgets, payload))
                   /\ clock' = clock + 1
           /\ UNCHANGED <<budgetMonth, dbAccounts, dbTransactions, dbLoans, user,
                          opening, loanVars, acctVars, peerVars, txViewVars,
                          formVars>>

\* the whole handler as one step: the flag is false again when it ends
SaveBudget ==
    \E editIdx \in 0..Len(budgets), cat \in CategoryIds \cup {""},
       acc \in BudgetFormAccounts, amountStr \in BudgetFormAmounts :
        /\ SaveBudgetOf(editIdx, cat, acc, amountStr)
        /\ UNCHANGED busyVars

\* the budgets applyTemplate creates: one per template category that names a
\* stored category and has no all-accounts budget in the loaded list
RECURSIVE BudgetsToCreate(_, _, _)
BudgetsToCreate(cats, buds, id) ==
    IF cats = <<>> THEN <<>>
    ELSE LET category == FindCategory(Head(cats).name)
         IN IF category # Null /\ ~FindBudget(buds, category, Null)
            THEN <<[id |-> id, category_id |-> category, account_id |-> Null,
                    month |-> budgetMonth, amount |-> Head(cats).amount]>>
                 \o BudgetsToCreate(Tail(cats), buds, id + 1)
            ELSE BudgetsToCreate(Tail(cats), buds, id)

\* BudgetsTab.applyTemplate, confirmed: a failed insert is not reported
ApplyTemplate ==
    \E k \in 1..Len(templates) :
        LET budgetsToCreate ==
                BudgetsToCreate(templates[k].categories, budgets, clock)
        IN /\ IF NoUid(user) \/ budgetsToCreate = <<>>
              THEN /\ Done("applyTemplate", "rejected")
                   /\ UNCHANGED <<dbBudgets, budgetVars, faults, clock>>
              ELSE /\ Len(dbBudgets) + Len(budgetsToCreate) <= MaxDbBudgets
                   /\ clock + Len(budgetsToCreate) <= MaxBudgetClock + 1
                   /\ BudgetWrite("applyTemplate",
                                  dbBudgets \o budgetsToCreate)
                   /\ clock' = clock + Len(budgetsToCreate)
           /\ UNCHANGED <<budgetMonth, budgetFrame>>

\* BudgetsTab.deleteBudget of a listed budget, confirmed
DeleteBudget ==
    \E i \in 1..Len(budgets) :
        /\ BudgetWrite("deleteBudget", DeleteById(dbBudgets, budgets[i].id))
        /\ UNCHANGED <<budgetMonth, clock, budgetFrame>>

\* setMonth(e.target.value), then the loadAll of the effect
SetMonth ==
    \E m \in {March, April} :
        /\ m # budgetMonth
        /\ budgetMonth' = m
        /\ \/ /\ LoadAll(dbBudgets, dbTransactions, m, TRUE)
              /\ UNCHANGED faults
           \/ /\ faults < MaxFaults
              /\ faults' = faults + 1
              /\ LoadAll(dbBudgets, dbTransactions, m, FALSE)
        /\ Done("setMonth", "ok")
        /\ UNCHANGED <<dbBudgets, clock, budgetFrame>>

InitBudgetStore ==
    /\ InitStore /\ InitLoanManager /\ InitAccountManager /\ InitBudgetsTab
    /\ InitView(<<>>)

NextBudgetStore == SaveBudget \/ ApplyTemplate \/ DeleteBudget \/ SetMonth

SpecBudgetStore == InitBudgetStore /\ [][NextBudgetStore]_vars

-----------------------------------------------------------------------------
(* saveBudget in two steps, with its busy flag (SpecSaving)                 *)

\* a release that the early returns skip
SavingAfterWrite(result) == result = "rejected"

\* finally { setSaving(false) }: the flag after the handler, whatever the
\* result
SavingAfter(result) == FALSE

\* the form is submitted (its button is disabled while saving):
\* setSaving(true) and the handler runs up to its first await
SubmitBudget ==
    /\ ~saving
    /\ saveStep = "idle"
    /\ saving' = TRUE
    /\ saveStep' = "running"
    /\ UNCHANGED <<storeVars, loanVars, acctVars, budgetStoreVars, peerVars,
                   budgetVars, txViewVars, formVars>>

\* the awaited calls of the handler return or throw, and the handler ends:
\* no user, a missing field, a duplicate, a remote error or exception, success
FinishSaveBudget ==
    /\ saveStep = "running"
    /\ \/ \* the amount field is empty: the handler returns before any write
          \E editIdx \in 0..Len(budgets), cat \in CategoryIds \cup {""},
             acc \in BudgetFormAccounts :
              SaveBudgetOf(editIdx, cat, acc, "")
       \/ \* an amount is typed
          \E editIdx \in 0..Len(budgets), cat \in CategoryIds \cup {""},
             acc \in BudgetFormAccounts,
             amountStr \in BudgetFormAmounts \ {""} :
              SaveBudgetOf(editIdx, cat, acc, amountStr)
    /\ saving' = SavingAfter(lastOp'.result)
    /\ saveStep' = "idle"

\* BudgetsTab is mounted, with or without a session
InitSaving ==
    /\ dbAccounts = OpeningBalances
    /\ dbTransactions = <<>>
    /\ dbLoans = <<>>
    /\ user \in {"u1", NoUser}
    /\ clock = 1
    /\ opening = dbAccounts
    /\ faults = 0
    /\ lastOp = [op |-> "init", result |-> "ok"]
    /\ dbAccountNames = AccountNames
    /\ dbBudgets = <<>>
    /\ InitLoanManager /\ InitAccountManager /\ InitBudgetsTab
    /\ InitView(<<>>)

NextSaving == SubmitBudget \/ FinishSaveBudget

\* every awaited call settles, so a running handler goes on to its end
SpecSaving == InitSaving /\ [][NextSaving]_vars /\ WF_vars(FinishSaveBudget)

----------------------------------------------------------------------------
(* Two LoanManagers over the store (SpecLoans) *)

LoanAmounts == {1, 12}

\* the loans the store may hold when the views are opened, made at tick 0
InitialLoans ==
    {Loan(0, a, t, "A2", r, IF r THEN 0 ELSE Null) :
        a \in LoanAmounts, t \in LoanTypes, r \in BOOLEAN}

loanFrame == <<user, opening, txViewVars, budgetVars, acctVars, budgetStoreVars,
               formVars, busyVars>>

\* LoanManager.deleteLoan of a listed loan
DeleteLoan ==
    \E n \in 1..Len(loans) :
        /\ \/ \* the confirmation is declined
              /\ Done("deleteLoan", "rejected")
              /\ UNCHANGED <<dbLoans, loanVars, faults>>
           \/ \* the delete fails: alert, nothing reloaded
              /\ faults < MaxFaults
              /\ faults' = faults + 1
              /\ Done("deleteLoan", "error")
              /\ UNCHANGED <<dbLoans, loanVars>>
           \/ /\ dbLoans' = DeleteById(dbLoans, loans[n].id)
              /\ LoanLoadData(dbLoans', dbAccounts)
              /\ Done("deleteLoan", "ok")
              /\ UNCHANGED faults
        /\ UNCHANGED <<dbAccounts, dbTransactions, clock, peerVars, loanFrame>>

\* the other browser tab comes to the front: its LoanManager holds the lists
\* of its own last loadData
SwitchClient ==
    /\ loans' = peerLoans
    /\ loanAccounts' = peerAccounts
    /\ peerLoans' = loans
    /\ peerAccounts' = loanAccounts
    /\ Done("switchClient", "ok")
    /\ UNCHANGED <<dbAccounts, dbTransactions, dbLoans, clock, faults, loanFrame>>

\* both tabs are open and their first loadData has returned
InitLoans ==
    /\ dbAccounts = OpeningBalances
    /\ dbAccountNames = AccountNames
    /\ dbTransactions = <<>>
    /\ dbBudgets = <<>>
    /\ dbLoans \in {<<>>} \cup {<<l>> : l \in InitialLoans}
    /\ user = "u1"
    /\ clock = 1
    /\ opening = dbAccounts
    /\ faults = 0
    /\ lastOp = [op |-> "init", result |-> "ok"]
    /\ InitBudgetsTab
    /\ InitAccountManager
    /\ InitView(<<>>)
    /\ loans = SelectLoans(dbLoans)
    /\ loanAccounts = SelectAccounts(dbAccounts)
    /\ peerLoans = loans
    /\ peerAccounts = loanAccounts

NextLoans == AddLoan \/ ToggleLoanStatus \/ OpenLoans \/ SwitchClient

SpecLoans == InitLoans /\ [][NextLoans]_vars

----------------------------------------------------------------------------
(* The handlers after the session has ended (SpecAuth) *)

StoredTransactions == {<<>>, <<Tx(0, "income", 1, "A1", Null, Null, D1, 0)>>}

StoredBudgets ==
    {<<>>,
     <<[id |-> 0, category_id |-> "c1", account_id |-> Null, month |-> March,
        amount |-> 5]>>,
     <<[id |-> 0, category_id |-> "c2", account_id |-> "A1", month |-> March,
        amount |-> 5]>>}

\* every view was loaded while the user was signed in; getUser now reports
\* no user
InitAuth ==
    /\ dbAccounts = OpeningBalances
    /\ dbAccountNames = AccountNames
    /\ dbTransactions \in StoredTransactions
    /\ dbBudgets \in StoredBudgets
    /\ dbLoans \in {<<>>} \cup {<<l>> : l \in InitialLoans}
    /\ user = NoUser
    /\ clock = 1
    /\ opening = dbAccounts
    /\ faults = 0
    /\ lastOp = [op |-> "init", result |-> "ok"]
    /\ loans = SelectLoans(dbLoans)
    /\ loanAccounts = SelectAccounts(dbAccounts)
    /\ peerLoans = loans
    /\ peerAccounts = loanAccounts
    /\ amAccounts = SelectAccountRows(dbAccountNames, dbAccounts,
                                      Len(AccountIdSeq))
    /\ budgetMonth = March
    /\ saving = FALSE
    /\ saveStep = "idle"
    /\ budgets = SelectBudgets(dbBudgets, budgetMonth)
    /\ budgetTransactions = SelectMonthTransactions(dbTransactions, budgetMonth)
    /\ filterStatus = "all"
    /\ sortBy = "usage"
    /\ rows = Rows(budgets, budgetTransactions, filterStatus, sortBy)
    /\ transactions = SelectTransactions(dbTransactions)
    /\ accounts = SelectAccounts(dbAccounts)
    /\ newTx = [type |-> "expense", account_id |-> accounts[1].id,
                to_account_id |-> ""]
    /\ selectedHistoryAccount = accounts[1].id
    /\ selectedMonth = March
    /\ historyRows = HistoryRows(transactions, selectedHistoryAccount, accounts)
    /\ monthly = Monthly(transactions, accounts, selectedMonth)
    /\ monthlyTM = MonthlyTM(transactions, accounts, selectedMonth)

NextAuth ==
    \/ AddAccount
    \/ AddTransaction
    \/ AddTransactionTM
    \/ AddLoan
    \/ ToggleLoanStatus
    \/ SaveBudget
    \/ ApplyTemplate

SpecAuth == InitAuth /\ [][NextAuth]_vars

----------------------------------------------------------------------------
(* Deleting rows (SpecDelete) *)

\* deleteTransaction of part_004 for a listed transaction
DeleteTransaction ==
    \E n \in 1..Len(transactions) :
        /\ \/ \* the confirmation is declined
              /\ Done("deleteTransaction", "rejected")
              /\ UNCHANGED <<dbTransactions, txViewVars, faults>>
           \/ \* the delete fails: notification, nothing reloaded
              /\ faults < MaxFaults
              /\ faults' = faults + 1
              /\ Done("deleteTransaction", "error")
              /\ UNCHANGED <<dbTransactions, txViewVars>>
           \/ /\ dbTransactions' = DeleteById(dbTransactions, transactions[n].id)
              /\ LoadData(dbTransactions', dbAccounts)
              /\ Done("deleteTransaction", "ok")
              /\ UNCHANGED faults
        /\ UNCHANGED <<dbAccounts, dbLoans, user, clock, opening, loanVars,
                       budgetVars, otherVars>>

StoredTxRows ==
    LET t1 == Tx(1, "income", 1, "A1", Null, Null, D1, 1)
        t2 == Tx(2, "expense", 15, "A2", Null, "c1", D2, 2)
        t3 == Tx(3, "transfer", 1, "A2", "A1", Null, D2, 3)
    IN {<<>>, <<t1>>, <<t2>>, <<t1, t2>>, <<t2, t3>>, <<t1, t3>>}

StoredLoanRows ==
    LET l1 == Loan(4, 1, "given", "A2", FALSE, Null)
        l2 == Loan(5, 12, "received", "A1", TRUE, 5)
    IN {<<>>, <<l1>>, <<l2>>, <<l1, l2>>}

\* the transactions view and two loans views have loaded the stored rows
InitDelete ==
    /\ dbAccounts = OpeningBalances
    /\ dbAccountNames = AccountNames
    /\ dbTransactions \in StoredTxRows
    /\ dbBudgets = <<>>
    /\ dbLoans \in StoredLoanRows
    /\ user = "u1"
    /\ clock = 6
    /\ opening = dbAccounts
    /\ faults = 0
    /\ lastOp = [op |-> "init", result |-> "ok"]
    /\ InitBudgetsTab
    /\ InitAccountManager
    /\ loans = SelectLoans(dbLoans)
    /\ loanAccounts = SelectAccounts(dbAccounts)
    /\ peerLoans = loans
    /\ peerAccounts = loanAccounts
    /\ accounts = SelectAccounts(dbAccounts)
    /\ newTx = [type |-> "expense", account_id |-> accounts[1].id,
                to_account_id |-> ""]
    /\ selectedHistoryAccount = accounts[1].id
    /\ selectedMonth = March
    /\ transactions =
          TransactionsAfterHistory(SelectTransactions(dbTransactions),
                                   selectedHistoryAccount)
    /\ historyRows = HistoryRows(SelectTransactions(dbTransactions),
                                 selectedHistoryAccount, accounts)
    /\ monthly = Monthly(SelectTransactions(dbTransactions), accounts,
                         selectedMonth)
    /\ monthlyTM = MonthlyTM(SelectTransactions(dbTransactions), accounts,
                             selectedMonth)

NextDelete == DeleteTransaction \/ DeleteLoan \/ SwitchClient

SpecDelete == InitDelete /\ [][NextDelete]_vars

-----------------------------------------------------------------------------
(* The add-transaction form, edited field by field and then submitted       *)
(* (SpecForm)                                                               *)

\* the destination list without its filter
ToAccountOptionsAll(accs, account_id) == {accs[i].id : i \in DOMAIN accs}

\* <option> values of the account select, the placeholder "" aside
AccountOptions(accs) == {accs[i].id : i \in DOMAIN accs}

\* <option> values of the To Account select: accounts.filter(acc => acc.id !==
\* newTx.account_id), the placeholder "" aside
ToAccountOptions(accs, account_id) ==
    {accs[i].id : i \in {k \in DOMAIN accs : accs[k].id # account_id}}

\* what a controlled <select> shows: its value when an option carries it, the
\* first option (the placeholder, value "") otherwise
DomValue(value, options) == IF value \in options THEN value ELSE ""

\* the browser lets the form through: every rendered `required` select shows
\* a value other than ""
FormValid(category_id) ==
    /\ DomValue(newTx.account_id, AccountOptions(accounts)) # ""
    /\ newTx.type = "transfer" =>
          DomValue(newTx.to_account_id,
                   ToAccountOptions(accounts, newTx.account_id)) # ""
    /\ newTx.type = "expense" => category_id # ""

\* the type select's onChange
SetType ==
    /\ \E type \in TxTypes : newTx' = [newTx EXCEPT !.type = type]
    /\ UNCHANGED <<storeVars, loanVars, txViewVars, budgetVars, acctVars,
                   budgetStoreVars, peerVars, busyVars, opening, faults, lastOp>>

\* the account select's onChange
SetAccountId ==
    /\ \E acc \in AccountOptions(accounts) \cup {""} :
          newTx' = [newTx EXCEPT !.account_id = acc]
    /\ UNCHANGED <<storeVars, loanVars, txViewVars, budgetVars, acctVars,
                   budgetStoreVars, peerVars, busyVars, opening, faults, lastOp>>

\* the To Account select's onChange; the select is rendered for transfers
SetToAccountId ==
    /\ newTx.type = "transfer"
    /\ \E to \in ToAccountOptions(accounts, newTx.account_id) \cup {""} :
          newTx' = [newTx EXCEPT !.to_account_id = to]
    /\ UNCHANGED <<storeVars, loanVars, txViewVars, budgetVars, acctVars,
                   budgetStoreVars, peerVars, busyVars, opening, faults, lastOp>>

\* what the handler reads from the form state
FormOf(amount, category_id) ==
    [type |-> newTx.type, amount |-> amount, account_id |-> newTx.account_id,
     to_account_id |-> newTx.to_account_id, category_id |-> category_id,
     date |-> Today]

\* the form's submit in part_004: addTransaction, then the reset of the form
SubmitTransaction ==
    \E amount \in FormAmounts, category_id \in {"c1", ""} :
        /\ FormValid(category_id)
        /\ AddTransactionOf(FormOf(amount, category_id))
        /\ newTx' = IF lastOp'.result = "ok"
                    THEN [newTx EXCEPT !.to_account_id = ""]
                    ELSE newTx

\* the form's submit in components/TransactionManager.tsx
SubmitTransactionTM ==
    \E amount \in FormAmounts, category_id \in {"c1", ""} :
        /\ FormValid(category_id)
        /\ AddTransactionTMOf(FormOf(amount, category_id))
        /\ newTx' = IF lastOp'.result = "ok"
                    THEN [newTx EXCEPT !.to_account_id = ""]
                    ELSE newTx

NextForm ==
    \/ SetType
    \/ SetAccountId
    \/ SetToAccountId
    \/ SubmitTransaction
    \/ SubmitTransactionTM

SpecForm == Init /\ [][NextForm]_vars

-----------------------------------------------------------------------------
(* The summary cards of FinanceMain                                         *)

\* txForSummary.filter(t => t.type === type).reduce((s, t) => s +
\* Number(t.amount || 0), 0) over the stored transactions
RECURSIVE TypeSum(_, _, _)
TypeSum(txs, type, sum) ==
    IF txs = <<>> THEN sum
    ELSE TypeSum(Tail(txs), type,
                 IF Head(txs).type = type THEN FAdd(sum, Head(txs).amount)
                 ELSE sum)

\* accounts.reduce((sum, acc) => sum + Number(acc.balance || 0), 0)
totalBalance(dbAcc) == FAdd(FAdd(0, dbAcc["A1"]), dbAcc["A2"])

moneyLent(dbTx) == TypeSum(dbTx, "loan_given", 0)

moneyOwed(dbTx) == TypeSum(dbTx, "loan_received", 0)

\* the header's net worth: totalBalance + (moneyLent - moneyOwed)
totalAssets(dbAcc, dbTx) ==
    FAdd(totalBalance(dbAcc), FSub(moneyLent(dbTx), moneyOwed(dbTx)))

----------------------------------------------------------------------------
(* Claims about historyRows (SpecHistory) *)

SelectedIndex == FindAccount(accounts, selectedHistoryAccount)
SelectedTx ==
    LET Keep(t) == TouchesAccount(t, selectedHistoryAccount)
    IN SelectSeq(transactions, Keep)
SameStamp(a, b) == a.date = b.date /\ a.created_at = b.created_at

\* C1 as stated: whenever the history of the selected account is not empty,
\* the balance_after of its first (newest) row is exactly the account's
\* current balance, whatever the amounts.
C1_AsStated ==
    (SelectedIndex # 0 /\ historyRows # <<>>)
        => historyRows[1].balance_after = accounts[SelectedIndex].balance

\* the balance and the amounts of the history, added without rounding
RECURSIVE Magnitude(_)
Magnitude(txs) ==
    IF txs = <<>>
    THEN (IF accounts[SelectedIndex].balance < 0
          THEN 0 - accounts[SelectedIndex].balance
          ELSE accounts[SelectedIndex].balance)
    ELSE Head(txs).amount + Magnitude(Tail(txs))

\* the round trip is exact while no sum of the replay can need more than
\* MantissaBits bits
RoundTripWhenExact ==
    (/\ SelectedIndex # 0
     /\ historyRows # <<>>
     /\ Magnitude(SelectedTx) < Pow2(MantissaBits))
        => historyRows[1].balance_after = accounts[SelectedIndex].balance

\* the signed-change table as the claim words it
ClaimedChangeHolds(r, A) ==
    LET t == r.tx
    IN /\ (t.type \in {"income", "loan_received"} /\ t.account_id = A)
             => r.change = t.amount
       /\ (t.type \in {"expense", "loan_given", "transfer"} /\ t.account_id = A)
             => r.change = 0 - t.amount
       /\ (t.type = "transfer" /\ t.to_account_id = A)
             => r.change = t.amount
       /\ ~(\/ t.type \in {"income", "loan_received"} /\ t.account_id = A
            \/ t.type \in {"expense", "loan_given", "transfer"} /\ t.account_id = A
            \/ t.type = "transfer" /\ t.to_account_id = A)
             => r.change = 0

AmendedChangeHolds(r, A) ==
    LET t == r.tx
    IN /\ (t.type \in {"income", "loan_received"} /\ t.account_id = A)
             => r.change = t.amount
       /\ (t.type \in {"expense", "loan_given"} /\ t.account_id = A)
             => r.change = 0 - t.amount
       /\ (t.type = "transfer" /\ t.account_id = A /\ t.to_account_id # A)
             => r.change = 0 - t.amount
       /\ (t.type = "transfer" /\ t.to_account_id = A)
             => r.change = t.amount
       /\ ~(\/ t.type \in {"income", "loan_received"} /\ t.account_id = A
            \/ t.type \in {"expense", "loan_given", "transfer"} /\ t.account_id = A
            \/ t.type = "transfer" /\ t.to_account_id = A)
             => r.change = 0

RowsOf(id, hist) == {i \in 1..Len(hist) : hist[i].tx.id = id}

\* C4: a loaded transfer of X from A to a different account B is recorded
\* with change -X in the history of A and +X in the history of B.
C4_TransferSymmetry ==
    \A k \in 1..Len(transactions) :
        LET t == transactions[k]
            histA == HistoryRows(transactions, t.account_id, accounts)
            histB == HistoryRows(transactions, t.to_account_id, accounts)
        IN (/\ t.type = "transfer"
            /\ t.account_id \in AccountIds /\ t.to_account_id \in AccountIds
            /\ t.account_id # t.to_account_id)
           => /\ RowsOf(t.id, histA) # {} /\ RowsOf(t.id, histB) # {}
              /\ \A i \in RowsOf(t.id, histA) : histA[i].change = 0 - t.amount
              /\ \A j \in RowsOf(t.id, histB) : histB[j].change = t.amount
              /\ \A i \in RowsOf(t.id, histA), j \in RowsOf(t.id, histB) :
                    histA[i].change + histB[j].change = 0

\* the history of the source account shows a transfer to the other account
C4_Witness ==
    \E i \in 1..Len(historyRows) :
        /\ historyRows[i].tx.type = "transfer"
        /\ historyRows[i].tx.account_id = selectedHistoryAccount
        /\ historyRows[i].tx.to_account_id \in AccountIds \ {selectedHistoryAccount}
        /\ historyRows[i].change = 0 - historyRows[i].tx.amount

IndexPermutations(n) ==
    {f \in [1..n -> 1..n] : \A i, j \in 1..n : i # j => f[i] # f[j]}
Permuted(s, f) == [i \in 1..Len(s) |-> s[f[i]]]

DistinctStamps ==
    \A i, j \in 1..Len(SelectedTx) :
        i # j => ~SameStamp(SelectedTx[i], SelectedTx[j])

\* newest first: later date first, and within a date later created_at first
NewestFirst(hist) ==
    \A i \in 1..Len(hist) - 1 :
        \/ hist[i].tx.date > hist[i + 1].tx.date
        \/ /\ hist[i].tx.date = hist[i + 1].tx.date
           /\ hist[i].tx.created_at > hist[i + 1].tx.created_at

\* C5: when the (date, created_at) pairs of the account's transactions are
\* pairwise distinct, every permutation of the loaded array gives the same
\* history, and that history is ordered newest first.
C5_TieBreak ==
    DistinctStamps =>
        /\ \A f \in IndexPermutations(Len(transactions)) :
              HistoryRows(Permuted(transactions, f), selectedHistoryAccount,
                          accounts) = historyRows
        /\ NewestFirst(historyRows)

\* two transactions of one date were loaded with the later one first
C5_Witness ==
    /\ Len(historyRows) = 2
    /\ Len(transactions) = 2
    /\ transactions[1].date = transactions[2].date
    /\ transactions[1].created_at > transactions[2].created_at
    /\ historyRows[1].tx = transactions[1]

NoTransactionOf(sel, txs) ==
    \A i \in 1..Len(txs) : ~TouchesAccount(txs[i], sel)

\* what a step may do to the loaded array: nothing, or load one more row
LoadedOnly(old, new) ==
    \/ new = old
    \/ (Len(new) = Len(old) + 1 /\ SubSeq(new, 1, Len(old)) = old)

\* C6: with no loaded transaction of the selected account the history is
\* empty, and a step that computes such a history leaves the loaded accounts
\* (their balances) as they were and the loaded transactions as they were
\* loaded.
C6_ZeroTransactions ==
    /\ [](NoTransactionOf(selectedHistoryAccount, transactions)
             => historyRows = <<>>)
    /\ [][NoTransactionOf(selectedHistoryAccount', transactions')
          => (accounts' = accounts /\ LoadedOnly(transactions, transactions'))]_vars

\* an account is selected while two transactions of the other account, the
\* later one first, are loaded
C6_Witness ==
    /\ selectedHistoryAccount \in AccountIds
    /\ Len(transactions) = 2
    /\ NoTransactionOf(selectedHistoryAccount, transactions)
    /\ CompareTx(transactions[1], transactions[2]) > 0
    /\ historyRows = <<>>

----------------------------------------------------------------------------
(* Claims about the stored balances (Spec) *)

RECURSIVE SignedChanges(_, _)
SignedChanges(db, a) ==
    IF db = <<>> THEN 0
    ELSE (IF TouchesAccount(Head(db), a) THEN ChangeOf(Head(db), a) ELSE 0)
         + SignedChanges(Tail(db), a)

\* C2 as stated: while every operation so far has completed without a remote
\* error, the stored balance of every account is its opening balance plus the
\* signed changes of the stored transactions that reference it.
C2_AsStated ==
    faults = 0 =>
        \A a \in AccountIds :
            dbAccounts[a] = opening[a] + SignedChanges(dbTransactions, a)

----------------------------------------------------------------------------
(* Claims about BudgetsTab.rows (SpecBudgets) *)

RowsOn(cat, acc) ==
    {i \in 1..Len(rows) : /\ rows[i].budget.category_id = cat
                          /\ rows[i].budget.account_id = acc}

Expenses == {i \in 1..Len(budgetTransactions) :
                budgetTransactions[i].type = "expense"}

C8_Clamping ==
    \A k \in 1..Len(rows) :
        LET r == rows[k]
        IN /\ (r.budget.amount > 0 /\ r.spent > r.budget.amount) =>
                 /\ r.pct.n = 100 * r.pct.d
                 /\ r.remaining = 0
                 /\ r.status = "exceeded"
           /\ r.pct.n <= 100 * r.pct.d
           /\ r.remaining >= 0

C8_Witness ==
    \E k \in 1..Len(rows) :
        /\ rows[k].budget.amount > 0
        /\ rows[k].spent > rows[k].budget.amount
        /\ rows[k].status = "exceeded"

\* C9 as stated: a row with target T >= 0 and spent S >= 0 is exceeded
\* whenever S >= T, and otherwise warning when S / T * 100 is in [80, 100)
\* and safe when it is below 80.
C9_AsStated ==
    \A k \in 1..Len(rows) :
        LET r == rows[k]
            T == r.budget.amount
            S == r.spent
        IN (T >= 0 /\ S >= 0) =>
              r.status = IF S >= T THEN "exceeded"
                         ELSE IF S * 100 >= 80 * T THEN "warning"
                         ELSE "safe"

----------------------------------------------------------------------------
(* Claims about monthly (SpecMonthly) *)

RECURSIVE MonthSum(_, _, _)
MonthSum(txs, month, types) ==
    IF txs = <<>> THEN 0
    ELSE (IF Head(txs).date \div 100 = month /\ Head(txs).type \in types
          THEN Head(txs).amount ELSE 0)
         + MonthSum(Tail(txs), month, types)

TotalsAsClaimed(m) ==
    /\ m.totalIncome = MonthSum(transactions, selectedMonth,
                                {"income", "loan_received"})
    /\ m.totalExpenses = MonthSum(transactions, selectedMonth,
                                  {"expense", "loan_given"})
    /\ m.net = m.totalIncome - m.totalExpenses

\* C10 as stated: the summary of the selected month, in either
\* TransactionManager, has totalIncome = the month's income and loan_received
\* amounts, totalExpenses = the month's expense and loan_given amounts,
\* transfers in neither, and net = totalIncome - totalExpenses.
C10_AsStated == TotalsAsClaimed(monthly) /\ TotalsAsClaimed(monthlyTM)

\* the summary of part_004 alone has the claimed totals
Part004Totals == TotalsAsClaimed(monthly)

----------------------------------------------------------------------------
(* Claims about AccountManager (SpecAccounts) *)

\* C11 as stated: no step stores a new account whose name equals, without
\* regard to case, the name of an account that was already stored.
C11_AsStated ==
    [][\A id \in (DOMAIN dbAccountNames') \ (DOMAIN dbAccountNames) :
          \A old \in DOMAIN dbAccountNames :
              ToLowerCase(dbAccountNames'[id]) # ToLowerCase(dbAccountNames[old])
      ]_vars

\* the same, for steps that start with the list on screen equal to the
\* stored accounts
DuplicateRejectedWhenLoaded ==
    [][(amAccounts = SelectAccountRows(dbAccountNames, dbAccounts,
                                       Len(AccountIdSeq)))
       => \A id \in (DOMAIN dbAccountNames') \ (DOMAIN dbAccountNames) :
             \A old \in DOMAIN dbAccountNames :
                 ToLowerCase(dbAccountNames'[id])
                     # ToLowerCase(dbAccountNames[old])
      ]_vars

----------------------------------------------------------------------------
(* Claims about the stored budgets (SpecBudgetStore) *)

SameBudgetTuple(a, b) ==
    /\ a.category_id = b.category_id
    /\ a.account_id = b.account_id
    /\ a.month = b.month

\* C12 as stated: the store never holds two budgets with the same category,
\* account (or none) and month.
C12_AsStated ==
    \A i, j \in 1..Len(dbBudgets) :
        SameBudgetTuple(dbBudgets[i], dbBudgets[j]) => i = j

\* the same, while no budget was edited and no remote call failed
UniqueWithoutEditOrFault ==
    [][(/\ faults' = 0
        /\ \A i \in 1..Len(dbBudgets) :
              \A j \in 1..Len(dbBudgets') :
                 dbBudgets'[j].id = dbBudgets[i].id => dbBudgets'[j] = dbBudgets[i]
        /\ \A i, j \in 1..Len(dbBudgets) :
              SameBudgetTuple(dbBudgets[i], dbBudgets[j]) => i = j)
       => \A i, j \in 1..Len(dbBudgets') :
             SameBudgetTuple(dbBudgets'[i], dbBudgets'[j]) => i = j
      ]_vars

----------------------------------------------------------------------------
(* Claims about the loan operations (SpecLoans) *)

ListsLoaded ==
    /\ loans = SelectLoans(dbLoans)
    /\ loanAccounts = SelectAccounts(dbAccounts)

\* the step is a toggleLoanStatus that finished without error on stored loan i
ToggledOk(i) ==
    /\ lastOp' = [op |-> "toggleLoanStatus", result |-> "ok"]
    /\ i \in 1..Len(dbLoans)
    /\ Len(dbLoans') = Len(dbLoans)
    /\ dbLoans'[i].id = dbLoans[i].id
    /\ dbLoans'[i].is_returned # dbLoans[i].is_returned

\* the balance the next toggle of stored loan i writes after this step, the
\* lists being reloaded by this step
SecondToggleBalance(i) ==
    ToggledBalance(dbLoans'[i], dbAccounts'[dbLoans[i].account_id],
                   ~dbLoans'[i].is_returned)

\* C13 as stated: a toggle that starts from loaded lists and succeeds, followed
\* by a second toggle of the same loan that is accepted, leaves the balance
\* and is_returned at their values before the first toggle.
C13_AsStated ==
    [][\A i \in 1..Len(dbLoans) :
          (ListsLoaded /\ ToggledOk(i) /\ SecondToggleBalance(i) >= 0)
          => /\ SecondToggleBalance(i) = dbAccounts[dbLoans[i].account_id]
             /\ (~dbLoans'[i].is_returned) = dbLoans[i].is_returned
      ]_vars

\* the reversal holds when the first toggle's sum is exact
ReversalWhenExact ==
    [][\A i \in 1..Len(dbLoans) :
          LET acc == dbLoans[i].account_id
              change == dbAccounts'[acc] - dbAccounts[acc]
          IN (/\ ListsLoaded /\ ToggledOk(i) /\ SecondToggleBalance(i) >= 0
              /\ change \in {dbLoans[i].amount, 0 - dbLoans[i].amount})
             => SecondToggleBalance(i) = dbAccounts[acc]
      ]_vars

\* the step is an addLoan or a toggleLoanStatus that finished without error
LoanOpOk ==
    /\ lastOp'.op \in {"addLoan", "toggleLoanStatus"}
    /\ lastOp'.result = "ok"

\* row i of the stored loans is the one the step added, or the listed loan
\* the step toggled
LoanWritten(i) ==
    IF lastOp'.op = "addLoan"
    THEN \A j \in 1..Len(dbLoans) : dbLoans[j].id # dbLoans'[i].id
    ELSE \E n \in 1..Len(loans) :
            /\ loans[n].id = dbLoans'[i].id
            /\ loans[n].is_returned # dbLoans'[i].is_returned

\* the step moved the balance of the loan's account, as the view had loaded
\* it, by the loan's amount, and no other balance
BalanceMovedBy(l) ==
    LET b == loanAccounts[FindAccount(loanAccounts, l.account_id)].balance
    IN \E x \in {FAdd(b, l.amount), FSub(b, l.amount)} :
          dbAccounts' = [dbAccounts EXCEPT ![l.account_id] = x]

\* C14 as stated: every addLoan and every toggleLoanStatus, in either
\* direction, that succeeds with every remote call succeeding moves the
\* balance by the loan amount and inserts one transaction record.
C14_AsStated ==
    [][(LoanOpOk /\ faults' = faults)
       => \E i \in 1..Len(dbLoans') :
             /\ LoanWritten(i)
             /\ BalanceMovedBy(dbLoans'[i])
             /\ Len(dbTransactions') = Len(dbTransactions) + 1
      ]_vars

\* the same for addLoan and for marking a loan returned
AuditWhenAddedOrReturned ==
    [][(LoanOpOk /\ faults' = faults)
       => \E i \in 1..Len(dbLoans') :
             /\ LoanWritten(i)
             /\ BalanceMovedBy(dbLoans'[i])
             /\ ((lastOp'.op = "addLoan" \/ dbLoans'[i].is_returned)
                 => Len(dbTransactions') = Len(dbTransactions) + 1)
      ]_vars

\* the step is an addLoan or a toggleLoanStatus in which one remote call
\* failed and which reported the failure
LoanOpFailedOnce ==
    /\ lastOp'.op \in {"addLoan", "toggleLoanStatus"}
    /\ lastOp'.result = "error"
    /\ faults' = faults + 1

\* C17 as stated: when one write of addLoan or toggleLoanStatus fails and the
\* compensation (if any) succeeds, the loans are as before the operation,
\* returned_at included, the balances are unchanged and no audit transaction
\* was inserted.
C17_AsStated ==
    [][LoanOpFailedOnce
       => /\ dbLoans' = dbLoans
          /\ dbAccounts' = dbAccounts
          /\ dbTransactions' = dbTransactions
      ]_vars

\* the same for operations that start from loaded lists, with returned_at
\* left out of the comparison
RolledBackButReturnedAt ==
    [][(ListsLoaded /\ LoanOpFailedOnce)
       => /\ Len(dbLoans') = Len(dbLoans)
          /\ \A i \in 1..Len(dbLoans) :
                [dbLoans'[i] EXCEPT !.returned_at = Null]
                    = [dbLoans[i] EXCEPT !.returned_at = Null]
          /\ dbAccounts' = dbAccounts
          /\ dbTransactions' = dbTransactions
      ]_vars

\* C18 as stated: an addLoan, or a toggleLoanStatus marking a loan returned,
\* that wrote the loan and the balance and reports success has inserted its
\* audit transaction.
C18_AsStated ==
    [][\A i \in 1..Len(dbLoans') :
          (/\ LoanOpOk
           /\ LoanWritten(i)
           /\ lastOp'.op = "addLoan" \/ dbLoans'[i].is_returned)
          => Len(dbTransactions') = Len(dbTransactions) + 1
      ]_vars

----------------------------------------------------------------------------
(* Claims about the amounts written (Spec) *)

\* the rows of table db' that the step inserted
Inserted(db, dbNext) ==
    {i \in 1..Len(dbNext) : \A j \in 1..Len(db) : db[j].id # dbNext[i].id}

\* C16 as stated: no step creates a transaction row or a loan row whose
\* amount is zero or negative.
C16_AsStated ==
    [][/\ \A i \in Inserted(dbTransactions, dbTransactions') :
             dbTransactions'[i].amount > 0
       /\ \A i \in Inserted(dbLoans, dbLoans') : dbLoans'[i].amount > 0
      ]_vars

\* addTransaction of part_004 creates no such row
Part004RejectsAmount ==
    [][lastOp'.op = "addTransaction"
       => \A i \in Inserted(dbTransactions, dbTransactions') :
             dbTransactions'[i].amount > 0
      ]_vars

----------------------------------------------------------------------------
(* Claims about the handlers without a user (SpecAuth) *)

\* C15: while the identity provider reports no current user, no step of
\* addAccount, addTransaction, addLoan, toggleLoanStatus, saveBudget or
\* applyTemplate changes a table of the store.
C15_NoWriteWithoutUser ==
    [][user = NoUser
       => /\ dbAccounts' = dbAccounts
          /\ dbAccountNames' = dbAccountNames
          /\ dbTransactions' = dbTransactions
          /\ dbLoans' = dbLoans
          /\ dbBudgets' = dbBudgets
      ]_vars

\* toggleLoanStatus of a listed loan whose new balance is accepted has
\* returned at the user check
C15_Witness ==
    /\ user = NoUser
    /\ lastOp = [op |-> "toggleLoanStatus", result |-> "rejected"]
    /\ \E n \in 1..Len(loans) :
          ToggledBalance(loans[n],
                         loanAccounts[FindAccount(loanAccounts,
                                                  loans[n].account_id)].balance,
                         ~loans[n].is_returned) >= 0

----------------------------------------------------------------------------
(* Claims about two clients (SpecLoans) *)

\* C19: an addLoan or toggleLoanStatus that completes without error stores
\* the balance its view had loaded plus or minus the amount, whatever the
\* store held: a change another client wrote since the load is overwritten.
C19_LastWriterWins ==
    [][LoanOpOk
       => \E i \in 1..Len(dbLoans') :
             LoanWritten(i) /\ BalanceMovedBy(dbLoans'[i])
      ]_vars

\* two clients each added a loan received of 1 on A1 from the same loaded
\* balance, no call failed, both loans and both audit transactions are
\* stored, and the balance holds one delta
C19_Witness ==
    /\ Len(dbLoans) = 2
    /\ \A i \in 1..2 :
          /\ dbLoans[i].account_id = "A1"
          /\ dbLoans[i].type = "received"
          /\ dbLoans[i].amount = 1
          /\ ~dbLoans[i].is_returned
    /\ Len(dbTransactions) = 2
    /\ faults = 0
    /\ lastOp = [op |-> "addLoan", result |-> "ok"]
    /\ dbAccounts["A1"] = opening["A1"] + 1

----------------------------------------------------------------------------
(* Claims about deleting rows (SpecDelete) *)

\* dbNext is db, or db without one of its rows
AtMostOneRemoved(db, dbNext) ==
    \/ dbNext = db
    \/ \E k \in 1..Len(db) :
          dbNext = [i \in 1..(Len(db) - 1) |-> IF i < k THEN db[i] ELSE db[i + 1]]

\* C20: a step of deleteTransaction or deleteLoan removes at most one row of
\* its own table and leaves the balances and the other tables as they were;
\* when it was declined or the delete failed the store is unchanged.
C20_DeletionFrame ==
    [][lastOp'.op \in {"deleteTransaction", "deleteLoan"}
       => /\ dbAccounts' = dbAccounts
          /\ dbAccountNames' = dbAccountNames
          /\ dbBudgets' = dbBudgets
          /\ IF lastOp'.op = "deleteTransaction"
             THEN /\ dbLoans' = dbLoans
                  /\ AtMostOneRemoved(dbTransactions, dbTransactions')
             ELSE /\ dbTransactions' = dbTransactions
                  /\ AtMostOneRemoved(dbLoans, dbLoans')
          /\ lastOp'.result # "ok"
             => dbTransactions' = dbTransactions /\ dbLoans' = dbLoans
      ]_vars

\* a transaction was deleted while another transaction and a loan are stored
C20_Witness ==
    /\ lastOp = [op |-> "deleteTransaction", result |-> "ok"]
    /\ Len(dbTransactions) = 1
    /\ Len(transactions) = 1
    /\ dbLoans # <<>>
    /\ dbAccounts = opening

----------------------------------------------------------------------------
(* Claims about the replay of historyRows (SpecHistory) *)

\* the rows of the history in replay order, oldest first
RowsAsc == Reverse(historyRows)

\* C21: in replay order the first row's balance_after is (current balance -
\* totalDelta) + its change, every later row's balance_after is the previous
\* row's balance_after + its own change, and every row's change is the delta
\* that entered totalDelta; the sums are the floating-point sums of the code.
C21_ReplayStep ==
    (SelectedIndex # 0 /\ historyRows # <<>>) =>
        LET sel == selectedHistoryAccount
            txAsc == [i \in 1..Len(RowsAsc) |-> RowsAsc[i].tx]
            totalDelta == TotalDelta(txAsc, sel)
        IN /\ RowsAsc[1].balance_after =
                 FAdd(FSub(accounts[SelectedIndex].balance, totalDelta),
                      RowsAsc[1].change)
           /\ \A i \in 2..Len(RowsAsc) :
                 RowsAsc[i].balance_after =
                     FAdd(RowsAsc[i - 1].balance_after, RowsAsc[i].change)
           /\ \A i \in 1..Len(RowsAsc) :
                 RowsAsc[i].change = DeltaOf(RowsAsc[i].tx, sel)

\* a history of two rows, a transfer into the account among them, both with
\* a change
C21_Witness ==
    /\ Len(historyRows) = 2
    /\ \A i \in 1..2 : historyRows[i].change # 0
    /\ \E i \in 1..2 :
          /\ historyRows[i].tx.type = "transfer"
          /\ historyRows[i].tx.to_account_id = selectedHistoryAccount
          /\ historyRows[i].tx.account_id # selectedHistoryAccount

----------------------------------------------------------------------------
(* Claims about the all-accounts budgets (SpecBudgets) *)

\* the amounts of the expenses of category cat, each added once, in loaded
\* order
RECURSIVE CategoryExpenseSum(_, _)
CategoryExpenseSum(txs, cat) ==
    IF txs = <<>> THEN 0
    ELSE LET t == txs[Len(txs)]
             before == CategoryExpenseSum(SubSeq(txs, 1, Len(txs) - 1), cat)
         IN IF t.type = "expense" /\ t.category_id = cat
            THEN FAdd(before, t.amount) ELSE before

\* C22 as stated: the row of a budget without an account reports as spent
\* the sum of the loaded expenses of its category, each counted once, with
\* or without an account_id.
C22_AsStated ==
    \A k \in 1..Len(rows) :
        rows[k].budget.account_id = Null =>
            rows[k].spent =
                CategoryExpenseSum(budgetTransactions, rows[k].budget.category_id)

\* the same when every loaded expense of the category names an account
AllAccountsSpendWithAccounts ==
    \A k \in 1..Len(rows) :
        (/\ rows[k].budget.account_id = Null
         /\ \A i \in Expenses :
               budgetTransactions[i].category_id = rows[k].budget.category_id
                  => budgetTransactions[i].account_id # Null)
        => rows[k].spent =
               CategoryExpenseSum(budgetTransactions, rows[k].budget.category_id)

----------------------------------------------------------------------------
(* Claims about categorySpending (SpecMonthly) *)

\* the month's expenses that resolve to category name n
NamedExpenses(n) ==
    {i \in 1..Len(transactions) :
        /\ transactions[i].date \div 100 = selectedMonth
        /\ transactions[i].type = "expense"
        /\ transactions[i].category_id \in CategoryIds
        /\ CategoryName[transactions[i].category_id] = n}

RECURSIVE SumOver(_)
SumOver(idx) ==
    IF idx = {} THEN 0
    ELSE LET i == CHOOSE j \in idx : TRUE
         IN transactions[i].amount + SumOver(idx \ {i})

CategoryTotalsAsClaimed(m, otherOutflow) ==
    /\ \A n \in DOMAIN m.categorySpending :
          /\ NamedExpenses(n) # {}
          /\ m.categorySpending[n] = SumOver(NamedExpenses(n))
    /\ \A c \in CategoryIds :
          NamedExpenses(CategoryName[c]) # {}
             => CategoryName[c] \in DOMAIN m.categorySpending
    /\ m.totalExpenses =
          MonthSum(transactions, selectedMonth, {"expense"})
          + MonthSum(transactions, selectedMonth, otherOutflow)

\* C23: in the summary of the selected month, of either TransactionManager,
\* categorySpending has one entry per category name that a month's expense
\* resolves to, holding the sum of those expenses; other types and expenses
\* without a category have no part in it; every expense of the month, with
\* or without a category, is in totalExpenses.
C23_CategoryTotals ==
    /\ CategoryTotalsAsClaimed(monthly, {"loan_given"})
    /\ CategoryTotalsAsClaimed(monthlyTM, {"loan_given", "transfer"})

\* the month holds an expense on food and an expense without a category
C23_Witness ==
    /\ Len(transactions) = 2
    /\ \A i \in 1..2 : /\ transactions[i].type = "expense"
                       /\ transactions[i].date \div 100 = selectedMonth
    /\ transactions[1].category_id = "c1"
    /\ transactions[2].category_id = Null
    /\ DOMAIN monthly.categorySpending = {"food"}
    /\ monthly.categorySpending["food"] = transactions[1].amount
    /\ monthly.totalExpenses = transactions[1].amount + transactions[2].amount

----------------------------------------------------------------------------
(* Claims about accountBreakdown (SpecMonthly) *)

\* the loaded transactions without the k-th
WithoutTx(k) ==
    [i \in 1..(Len(transactions) - 1) |->
        IF i < k THEN transactions[i] ELSE transactions[i + 1]]

RECURSIVE NetOfAccounts(_)
NetOfAccounts(breakdown) ==
    IF breakdown = <<>> THEN 0
    ELSE (Head(breakdown).income - Head(breakdown).expenses)
         + NetOfAccounts(Tail(breakdown))

\* breakdown "with" is breakdown "without" plus X on the expenses of account
\* A and X on the income of account B, and nothing else
TransferAdded(with, without, A, B, X) ==
    /\ Len(with) = Len(without)
    /\ \A i \in 1..Len(with) :
          /\ with[i].id = without[i].id
          /\ with[i].expenses =
                without[i].expenses + (IF with[i].id = A THEN X ELSE 0)
          /\ with[i].income =
                without[i].income + (IF with[i].id = B THEN X ELSE 0)
    /\ NetOfAccounts(with) = NetOfAccounts(without)

\* C24: in the accountBreakdown of either summary, a transfer of X dated in
\* the selected month from a listed account A to a different listed account
\* B adds X to the expenses of A and X to the income of B and to nothing
\* else, so the sum over the accounts of income - expenses is the same with
\* and without the transfer.
C24_TransferBreakdown ==
    \A k \in 1..Len(transactions) :
        LET t == transactions[k]
            without == AccountBreakdown(MonthTx(WithoutTx(k), selectedMonth),
                                        accounts)
        IN (/\ t.type = "transfer"
            /\ StartsWithMonth(t.date, selectedMonth)
            /\ FindAccount(accounts, t.account_id) # 0
            /\ FindAccount(accounts, t.to_account_id) # 0
            /\ t.account_id # t.to_account_id)
           => /\ TransferAdded(monthly.accountBreakdown, without,
                               t.account_id, t.to_account_id, t.amount)
              /\ TransferAdded(monthlyTM.accountBreakdown, without,
                               t.account_id, t.to_account_id, t.amount)

\* the month holds a transfer from A1 to A2 and an expense of A1
C24_Witness ==
    /\ Len(transactions) = 2
    /\ \A i \in 1..2 : transactions[i].date \div 100 = selectedMonth
    /\ transactions[1].type = "expense"
    /\ transactions[1].account_id = "A1"
    /\ transactions[2].type = "transfer"
    /\ transactions[2].account_id = "A1"
    /\ transactions[2].to_account_id = "A2"
    /\ monthly.accountBreakdown[2].income = transactions[2].amount
    /\ monthly.accountBreakdown[1].expenses =
          transactions[1].amount + transactions[2].amount

-----------------------------------------------------------------------------
(* Claims about the add-transaction form (SpecForm)                         *)

\* C25: whatever the order in which type, source account and destination
\* account were edited, a submit never stores a transfer whose to_account_id
\* equals its account_id.
C25_NoSelfTransfer ==
    [][\A i \in Inserted(dbTransactions, dbTransactions') :
          dbTransactions'[i].type = "transfer" =>
             dbTransactions'[i].to_account_id # dbTransactions'[i].account_id]_vars

\* a transfer was submitted and stored, and the form state was then edited
\* into source = destination
C25_Witness ==
    /\ newTx.type = "transfer"
    /\ newTx.account_id # ""
    /\ newTx.to_account_id = newTx.account_id
    /\ \E i \in DOMAIN dbTransactions :
          /\ dbTransactions[i].type = "transfer"
          /\ dbTransactions[i].to_account_id # Null

-----------------------------------------------------------------------------
(* Claims about the insufficient-balance guards (SpecLoans)                 *)

\* the step is one of addLoan with type 'given' or of toggleLoanStatus
GivenOrToggle ==
    /\ lastOp'.op \in {"addLoan", "toggleLoanStatus"}
    /\ \A i \in Inserted(dbLoans, dbLoans') : dbLoans'[i].type = "given"

\* C26: an addLoan or toggleLoanStatus stopped by its guard writes nothing,
\* and every balance that addLoan of type 'given' or toggleLoanStatus writes
\* is >= 0.
C26_GuardedBalance ==
    [][/\ (lastOp'.op \in {"addLoan", "toggleLoanStatus"}
             /\ lastOp'.result = "rejected")
          => UNCHANGED <<dbAccounts, dbLoans, dbTransactions>>
       /\ GivenOrToggle =>
             \A id \in DOMAIN dbAccounts' :
                \/ dbAccounts'[id] >= 0
                \/ dbAccounts'[id] = dbAccounts[id]]_vars

\* a given loan has just been written, its account left at or above zero,
\* while another account stands below zero
C26_Witness ==
    /\ lastOp = [op |-> "addLoan", result |-> "ok"]
    /\ dbLoans # <<>>
    /\ dbLoans[Len(dbLoans)].type = "given"
    /\ dbLoans[Len(dbLoans)].amount > 0
    /\ dbAccounts[dbLoans[Len(dbLoans)].account_id] >= 0
    /\ \E id \in DOMAIN dbAccounts : dbAccounts[id] < 0

-----------------------------------------------------------------------------
(* Claims about the records of returned loans (SpecLoans)                   *)

\* the step changed the stored is_returned of some loan from false to true
ReturnedNow ==
    /\ Len(dbLoans') = Len(dbLoans)
    /\ \E i \in 1..Len(dbLoans) :
          /\ dbLoans'[i].id = dbLoans[i].id
          /\ ~dbLoans[i].is_returned
          /\ dbLoans'[i].is_returned

\* C27 as stated: a toggleLoanStatus whose remote calls all succeed stores a
\* 'loan returned/repaid' transaction exactly when it changes the stored
\* is_returned of the loan from false to true, so that the records of a loan
\* and its changes to returned stay equal in number, also when the toggle runs
\* on a list that an earlier toggle of the same loan has not yet refreshed.
C27_AsStated ==
    [][(lastOp'.op = "toggleLoanStatus" /\ faults' = faults)
       => (Inserted(dbTransactions, dbTransactions') # {} <=> ReturnedNow)]_vars

-----------------------------------------------------------------------------
(* Claims about the net worth of the header (SpecLoans)                     *)

\* C28 as stated: the net worth of the header, total balance + (loan_given
\* amounts - loan_received amounts), is the same after every addLoan and
\* every toggleLoanStatus, to returned or back, whose remote calls all
\* succeed as it was before.
C28_AsStated ==
    [][(LoanOpOk /\ faults' = faults)
       => totalAssets(dbAccounts', dbTransactions')
             = totalAssets(dbAccounts, dbTransactions)]_vars

-----------------------------------------------------------------------------
(* Claims about the names of the stored accounts (SpecAccountEdit)          *)

\* C29 as stated: after any sequence of addAccount, saveEdit and
\* deleteAccount, no two stored accounts have names that are equal when case
\* is ignored.
C29_AsStated ==
    \A a, b \in DOMAIN dbAccountNames :
        a # b => ToLowerCase(dbAccountNames[a]) # ToLowerCase(dbAccountNames[b])

-----------------------------------------------------------------------------
(* Claims about the busy flag of saveBudget (SpecSaving)                    *)

\* C30: every saveBudget invocation sets saving to true, and saving is false
\* again eventually, on every path of the handler: no user, a missing field,
\* a duplicate, a remote error, an exception, success.
C30_SavingReleased ==
    /\ [][(saveStep = "idle" /\ saveStep' = "running") => saving']_vars
    /\ (saving ~> ~saving)

\* a saveBudget is running with the flag set, after an earlier one has stored
\* a budget and another has been turned down
C30_Witness ==
    /\ saving
    /\ saveStep = "running"
    /\ dbBudgets # <<>>
    /\ lastOp = [op |-> "saveBudget", result |-> "rejected"]

====
